---- MODULE Spec2Model ----
(***************************************************************************)
(* The radix-tree request router of src/router.go (DefaultRouter): route   *)
(* registration (Add / insert), removal (Remove) and matching (Match).     *)
(*                                                                         *)
(* Strings are sequences of one-character strings; the Go byte index i is  *)
(* the sequence index i+1.  Nodes live in an arena `nodes` (pointer = id,  *)
(* Nil = 0); r.tree is the node Root for the lifetime of the router.       *)
(***************************************************************************)
EXTENDS Integers, Sequences, FiniteSets, TLC

VARIABLES nodes, routes, allowOverwritingRoute, unescapePathParamValues,
          useEscapedPathForRouting, last, matchers

vars == <<nodes, routes, allowOverwritingRoute, unescapePathParamValues,
          useEscapedPathForRouting, last, matchers>>

-----------------------------------------------------------------------------
(* Bounds of the model *)

\* the registry never grows beyond this many entries
MaxRoutes == 3

\* the goroutines that call Match at the same time
MaxMatchers == 2

-----------------------------------------------------------------------------
(* Strings *)

Take(s, n) == SubSeq(s, 1, n)
Drop(s, n) == SubSeq(s, n + 1, Len(s))

Min(a, b) == IF a < b THEN a ELSE b

RECURSIVE LcpFrom(_, _, _, _)
LcpFrom(a, b, max, l) ==
    IF l < max /\ a[l + 1] = b[l + 1] THEN LcpFrom(a, b, max, l + 1) ELSE l

\* for ; lcpLen < max && search[lcpLen] == prefix[lcpLen]; lcpLen++ {}
Lcp(search, prefix) == LcpFrom(search, prefix, Min(Len(search), Len(prefix)), 0)

\* for ; i < l && s[i] != '/'; i++ {}   (i is a Go index, the result too)
RECURSIVE ScanToSlash(_, _)
ScanToSlash(s, i) ==
    IF i < Len(s) /\ s[i + 1] # "/" THEN ScanToSlash(s, i + 1) ELSE i

-----------------------------------------------------------------------------
(* Nodes and method tables *)

Nil == 0
Root == 1

staticKind == "static"
paramKind == "param"
anyKind == "any"

paramLabel == ":"
anyLabel == "*"

GET == "GET"
POST == "POST"

\* methods with a direct slot in routeMethods
DirectMethods ==
    {"CONNECT", "DELETE", "GET", "HEAD", "OPTIONS", "PATCH", "POST",
     "PROPFIND", "PUT", "TRACE", "REPORT"}

NoHandler == "nil"

\* a pointer to a routeMethod is <<rm>>, the nil pointer is <<>>
NilRM == << >>

\* new(routeMethods): no slot set, no map
NewRouteMethods == << >>

\* find with the case of POST missing from its switch
MethodsFindNoPost(m, method) ==
    IF method \in DOMAIN m /\ method # "POST" THEN <<m[method]>> ELSE << >>

\* A method table is a function from the methods that have an entry.
MethodsFind(m, method) == IF method \in DOMAIN m THEN <<m[method]>> ELSE NilRM

MethodsIsHandler(m) == DOMAIN m # {}

\* the nil dereference of r.handler in the default branch of set
MethodsSetPanics(method, r) == method \notin DirectMethods /\ r = NilRM

MethodsSet(m, method, r) ==
    IF method \in DirectMethods
      THEN IF r = NilRM
             THEN [k \in DOMAIN m \ {method} |-> m[k]]
             ELSE [k \in DOMAIN m \cup {method} |-> IF k = method THEN r[1] ELSE m[k]]
      ELSE IF r = NilRM \/ r[1].handler = NoHandler
             THEN [k \in DOMAIN m \ {method} |-> m[k]]
             ELSE [k \in DOMAIN m \cup {method} |-> IF k = method THEN r[1] ELSE m[k]]

\* routeMethod{routeInfo: &routeInfo{method: method}}: no handler, no path
BareRouteMethod(method) ==
    [handler |-> NoHandler, method |-> method, path |-> << >>, params |-> << >>,
     name |-> ""]

\* staticChildren is a slice: scNil tells the nil slice from an empty one
NewNode(t, pre, p, sc, scNil, mh, paramsCount, ppath, paramChildren, anyChildren) ==
    [kind |-> t, label |-> pre[1], prefix |-> pre, parent |-> p,
     staticChildren |-> sc, scNil |-> scNil, originalPath |-> ppath,
     paramsCount |-> paramsCount, methods |-> mh,
     paramChild |-> paramChildren, anyChild |-> anyChildren,
     isLeaf |-> scNil /\ paramChildren = Nil /\ anyChildren = Nil,
     isHandler |-> MethodsIsHandler(mh)]

\* the root made by NewRouter
RootNode ==
    [kind |-> staticKind, label |-> "", prefix |-> << >>, parent |-> Nil,
     staticChildren |-> << >>, scNil |-> TRUE, originalPath |-> << >>,
     paramsCount |-> 0, methods |-> NewRouteMethods,
     paramChild |-> Nil, anyChild |-> Nil, isLeaf |-> TRUE, isHandler |-> FALSE]

\* n.setHandler(method, r) on the node record n
SetHandler(n, method, r) ==
    LET m2 == MethodsSet(n.methods, method, r)
    IN [n EXCEPT !.methods = m2,
                 !.isHandler = IF r # NilRM /\ r[1].handler # NoHandler
                                 THEN TRUE ELSE MethodsIsHandler(m2)]

AddStaticChild(n, c) ==
    [n EXCEPT !.staticChildren = Append(@, c), !.scNil = FALSE]

RECURSIVE FirstWithLabel(_, _, _, _)
FirstWithLabel(ns, sc, l, i) ==
    IF i > Len(sc) THEN Nil
    ELSE IF ns[sc[i]].label = l THEN sc[i]
    ELSE FirstWithLabel(ns, sc, l, i + 1)

FindStaticChild(ns, n, l) == FirstWithLabel(ns, ns[n].staticChildren, l, 1)

FindChildWithLabel(ns, n, l) ==
    LET c == FindStaticChild(ns, n, l)
    IN IF c # Nil THEN c
       ELSE IF l = paramLabel THEN ns[n].paramChild
       ELSE IF l = anyLabel THEN ns[n].anyChild
       ELSE Nil

\* the address of a freshly allocated node
FreshId(ns) == CHOOSE i \in 1..(Cardinality(DOMAIN ns) + 1) : i \notin DOMAIN ns

IsLeafNow(n) == n.scNil /\ n.paramChild = Nil /\ n.anyChild = Nil

-----------------------------------------------------------------------------
(* insert *)

\* a split that leaves the children of the split node pointing at it
ReparentSkipped(ns, n, p) == ns

\* the children of node record n get the parent p
Reparent(ns, n, p) ==
    [k \in DOMAIN ns |->
        IF (\E i \in 1..Len(n.staticChildren) : n.staticChildren[i] = k)
           \/ n.paramChild = k \/ n.anyChild = k
          THEN [ns[k] EXCEPT !.parent = p]
          ELSE ns[k]]

\* if ri.handler != nil { setHandler(method, &ri); paramsCount = len(ri.params) }
AttachHandler(n, method, ri) ==
    IF ri.handler # NoHandler
      THEN [SetHandler(n, method, <<ri>>) EXCEPT !.paramsCount = Len(ri.params)]
      ELSE n

\* ... and, where the code also does it, originalPath = ri.path
AttachHandlerAndPath(n, method, ri) ==
    IF ri.handler # NoHandler
      THEN [AttachHandler(n, method, ri) EXCEPT !.originalPath = ri.path]
      ELSE n

\* lcpLen == 0: at the root node
InsertAtRoot(ns, cur, search, t, method, ri) ==
    LET n0 == [ns[cur] EXCEPT !.label = search[1], !.prefix = search]
        n1 == IF ri.handler # NoHandler
                THEN AttachHandlerAndPath([n0 EXCEPT !.kind = t], method, ri)
                ELSE n0
    IN [ns EXCEPT ![cur] = [n1 EXCEPT !.isLeaf = IsLeafNow(n1)]]

\* a split whose lower half does not inherit the method table
InsertSplitDropsMethods(ns, cur, search, lcpLen, t, method, ri) ==
    LET c == ns[cur]
        nid == FreshId(ns)
        n == NewNode(c.kind, Drop(c.prefix, lcpLen), cur, c.staticChildren, c.scNil,
                     NewRouteMethods, c.paramsCount, c.originalPath, c.paramChild,
                     c.anyChild)
        ns1 == Reparent(ns, c, nid) @@ (nid :> n)
        reset == [c EXCEPT !.kind = staticKind, !.label = c.prefix[1],
                           !.prefix = Take(c.prefix, lcpLen),
                           !.staticChildren = << >>, !.scNil = TRUE,
                           !.methods = NewRouteMethods, !.originalPath = << >>,
                           !.paramsCount = 0, !.paramChild = Nil, !.anyChild = Nil,
                           !.isLeaf = FALSE, !.isHandler = FALSE]
        withN == AddStaticChild(reset, nid)
    IN IF lcpLen = Len(search)
         THEN LET p1 == AttachHandlerAndPath([withN EXCEPT !.kind = t], method, ri)
              IN [ns1 EXCEPT ![cur] = [p1 EXCEPT !.isLeaf = IsLeafNow(p1)]]
         ELSE LET cid == FreshId(ns1)
                  n2 == AttachHandler(
                            NewNode(t, Drop(search, lcpLen), cur, << >>, TRUE,
                                    NewRouteMethods, 0, ri.path, Nil, Nil),
                            method, ri)
                  p1 == AddStaticChild(withN, cid)
              IN [ns1 EXCEPT ![cur] = [p1 EXCEPT !.isLeaf = IsLeafNow(p1)]]
                 @@ (cid :> n2)

\* lcpLen < prefixLen: split the node
InsertSplit(ns, cur, search, lcpLen, t, method, ri) ==
    LET c == ns[cur]
        nid == FreshId(ns)
        n == NewNode(c.kind, Drop(c.prefix, lcpLen), cur, c.staticChildren, c.scNil,
                     c.methods, c.paramsCount, c.originalPath, c.paramChild, c.anyChild)
        ns1 == Reparent(ns, c, nid) @@ (nid :> n)
        reset == [c EXCEPT !.kind = staticKind, !.label = c.prefix[1],
                           !.prefix = Take(c.prefix, lcpLen),
                           !.staticChildren = << >>, !.scNil = TRUE,
                           !.methods = NewRouteMethods, !.originalPath = << >>,
                           !.paramsCount = 0, !.paramChild = Nil, !.anyChild = Nil,
                           !.isLeaf = FALSE, !.isHandler = FALSE]
        withN == AddStaticChild(reset, nid)
    IN IF lcpLen = Len(search)
         THEN \* at parent node
              LET p1 == AttachHandlerAndPath([withN EXCEPT !.kind = t], method, ri)
              IN [ns1 EXCEPT ![cur] = [p1 EXCEPT !.isLeaf = IsLeafNow(p1)]]
         ELSE \* create child node
              LET cid == FreshId(ns1)
                  n2 == AttachHandler(
                            NewNode(t, Drop(search, lcpLen), cur, << >>, TRUE,
                                    NewRouteMethods, 0, ri.path, Nil, Nil),
                            method, ri)
                  p1 == AddStaticChild(withN, cid)
              IN [ns1 EXCEPT ![cur] = [p1 EXCEPT !.isLeaf = IsLeafNow(p1)]]
                 @@ (cid :> n2)

\* lcpLen == prefixLen, lcpLen < searchLen, no child with the label: create it
InsertChild(ns, cur, search, t, method, ri) ==
    LET cid == FreshId(ns)
        n == AttachHandler(
                 NewNode(t, search, cur, << >>, TRUE, NewRouteMethods, 0, ri.path,
                         Nil, Nil),
                 method, ri)
        c == ns[cur]
        p1 == CASE t = staticKind -> AddStaticChild(c, cid)
                [] t = paramKind -> [c EXCEPT !.paramChild = cid]
                [] t = anyKind -> [c EXCEPT !.anyChild = cid]
    IN [ns EXCEPT ![cur] = [p1 EXCEPT !.isLeaf = IsLeafNow(p1)]] @@ (cid :> n)

RECURSIVE InsertFrom(_, _, _, _, _, _)
InsertFrom(ns, cur, search, t, method, ri) ==
    LET searchLen == Len(search)
        prefixLen == Len(ns[cur].prefix)
        lcpLen == Lcp(search, ns[cur].prefix)
    IN IF lcpLen = 0 THEN InsertAtRoot(ns, cur, search, t, method, ri)
       ELSE IF lcpLen < prefixLen
         THEN InsertSplit(ns, cur, search, lcpLen, t, method, ri)
       ELSE IF lcpLen < searchLen
         THEN LET s2 == Drop(search, lcpLen)
                  c == FindChildWithLabel(ns, cur, s2[1])
              IN IF c # Nil
                   THEN InsertFrom(ns, c, s2, t, method, ri)   \* go deeper
                   ELSE InsertChild(ns, cur, s2, t, method, ri)
       ELSE \* node already exists
            [ns EXCEPT ![cur] = AttachHandlerAndPath(ns[cur], method, ri)]

\* r.insert(t, path, method, ri), on the arena
Insert(ns, t, path, method, ri) == InsertFrom(ns, Root, path, t, method, ri)

-----------------------------------------------------------------------------
(* Add *)

\* if path == "" { path = "/" }; if path[0] != '/' { path = "/" + path }
NormalizePath(path) ==
    IF path = << >> THEN <<"/">>
    ELSE IF path[1] # "/" THEN <<"/">> \o path
    ELSE path

\* Routable.ToRoute(): the routable's own fields
ToRoute(routable) == routable

\* Routable.ToRouteInfo(params): the route as given, with the parsed names
ToRouteInfo(routable, params) ==
    [method |-> routable.method, path |-> routable.path, name |-> routable.name,
     params |-> params]

\* applyMiddleware(h, middlewares...): the handler itself when there are none
ApplyMiddleware(h, middlewares) ==
    IF middlewares = << >> THEN h ELSE <<h, middlewares>>

\* for _, rr := range r.routes { if method == rr.Method() && path == rr.Path() ...
RECURSIVE RouteIndexFrom(_, _, _, _)
RouteIndexFrom(rs, method, path, i) ==
    IF i > Len(rs) THEN 0
    ELSE IF rs[i].method = method /\ rs[i].path = path THEN i
    ELSE RouteIndexFrom(rs, method, path, i + 1)

\* the index of the first registry entry with the method and path, 0 if none
RouteIndex(rs, method, path) == RouteIndexFrom(rs, method, path, 1)

\* routeMethod{routeInfo: &routeInfo{method, path: originalPath, params, name},
\*             handler: h, orgRouteInfo: ri}
FullRouteMethod(route, h, originalPath, paramNames) ==
    [handler |-> h, method |-> route.method, path |-> originalPath,
     params |-> paramNames, name |-> route.name]

\* The scanning loop of Add from Go index i on; gives the arena, the names and
\* whether the handler was inserted (wasAdded).
RECURSIVE AddScan(_, _, _, _, _, _, _)
AddScan(ns, route, h, originalPath, path, i, paramNames) ==
    IF i >= Len(path)
      THEN [nodes |-> ns, path |-> path, params |-> paramNames, wasAdded |-> FALSE]
    ELSE IF path[i + 1] = paramLabel
      THEN IF i > 0 /\ path[i] = "\\"
             THEN AddScan(ns, route, h, originalPath, path, i + 1, paramNames)
             ELSE LET j == i + 1
                      ns1 == Insert(ns, staticKind, Take(path, i), route.method,
                                    BareRouteMethod(route.method))
                      e == ScanToSlash(path, i)
                      names == Append(paramNames, SubSeq(path, j + 1, e))
                      path2 == Take(path, j) \o Drop(path, e)
                  IN IF j = Len(path2)
                       THEN \* the param is the last fragment of the path
                            [nodes |-> Insert(ns1, paramKind, Take(path2, j), route.method,
                                              FullRouteMethod(route, h, originalPath, names)),
                             path |-> path2, params |-> names, wasAdded |-> TRUE]
                       ELSE AddScan(Insert(ns1, paramKind, Take(path2, j), route.method,
                                           BareRouteMethod(route.method)),
                                    route, h, originalPath, path2, j + 1, names)
    ELSE IF path[i + 1] = anyLabel
      THEN LET ns1 == Insert(ns, staticKind, Take(path, i), route.method,
                             BareRouteMethod(route.method))
               names == Append(paramNames, <<"*">>)
           IN [nodes |-> Insert(ns1, anyKind, Take(path, i + 1), route.method,
                                FullRouteMethod(route, h, originalPath, names)),
               path |-> path, params |-> names, wasAdded |-> TRUE]
    ELSE AddScan(ns, route, h, originalPath, path, i + 1, paramNames)

\* storeRouteInfo without the search for an existing entry
StoreRouteInfoAppends(rs, ri) == Append(rs, ri)

\* r.storeRouteInfo(ri)
StoreRouteInfo(rs, ri) ==
    LET i == RouteIndex(rs, ri.method, ri.path)
    IN IF i # 0 THEN [rs EXCEPT ![i] = ri] ELSE Append(rs, ri)

\* Add refusing a duplicate whatever allowOverwritingRoute says
AddOpRefusesDuplicates(ns, rs, allowOverwriting, routable) ==
    LET route == ToRoute(routable)
        failed == [err |-> TRUE, nodes |-> ns, routes |-> rs, ri |-> << >>]
    IN IF route.handler = NoHandler THEN failed
       ELSE IF RouteIndex(rs, route.method, route.path) # 0 THEN failed
       ELSE LET h == ApplyMiddleware(route.handler, route.middlewares)
                path == NormalizePath(route.path)
                sc == AddScan(ns, route, h, path, path, 0, << >>)
                ri == ToRouteInfo(routable, sc.params)
                ns2 == IF sc.wasAdded THEN sc.nodes
                       ELSE Insert(sc.nodes, staticKind, sc.path, route.method,
                                   FullRouteMethod(route, h, path, sc.params))
            IN [err |-> FALSE, nodes |-> ns2, routes |-> StoreRouteInfo(rs, ri),
                ri |-> <<ri>>]

\* r.Add(routable) on the router (ns, rs): the error, the new arena and registry,
\* and the RouteInfo returned
AddOp(ns, rs, allowOverwriting, routable) ==
    LET route == ToRoute(routable)
        failed == [err |-> TRUE, nodes |-> ns, routes |-> rs, ri |-> << >>]
    IN IF route.handler = NoHandler THEN failed
       ELSE IF ~allowOverwriting /\ RouteIndex(rs, route.method, route.path) # 0
         THEN failed
       ELSE LET h == ApplyMiddleware(route.handler, route.middlewares)
                path == NormalizePath(route.path)
                sc == AddScan(ns, route, h, path, path, 0, << >>)
                ri == ToRouteInfo(routable, sc.params)
                ns2 == IF sc.wasAdded THEN sc.nodes
                       ELSE Insert(sc.nodes, staticKind, sc.path, route.method,
                                   FullRouteMethod(route, h, path, sc.params))
            IN [err |-> FALSE, nodes |-> ns2, routes |-> StoreRouteInfo(rs, ri),
                ri |-> <<ri>>]

-----------------------------------------------------------------------------
(* Remove *)

\* The descent of Remove along the pattern's own bytes: the node whose
\* originalPath is the path and which is a handler, or Nil.
RECURSIVE LocateFrom(_, _, _, _)
LocateFrom(ns, cur, prefixLen, path) ==
    IF ns[cur].originalPath = path /\ ns[cur].isHandler THEN cur
    ELSE LET pl == IF ns[cur].kind = staticKind
                     THEN prefixLen + Len(ns[cur].prefix)
                     ELSE Len(ns[cur].originalPath)
         IN IF pl >= Len(path) THEN Nil
            ELSE LET next == path[pl + 1]
                     c == CASE next = paramLabel -> ns[cur].paramChild
                            [] next = anyLabel -> ns[cur].anyChild
                            [] OTHER -> FindStaticChild(ns, cur, next)
                 IN IF c = Nil THEN Nil ELSE LocateFrom(ns, c, pl, path)

RECURSIVE IndexOfFrom(_, _, _)
IndexOfFrom(sc, c, i) ==
    IF i > Len(sc) THEN 1
    ELSE IF sc[i] = c THEN i
    ELSE IndexOfFrom(sc, c, i + 1)

\* var index int; for i, c := range sc { if c == current { index = i; break } }
IndexOfChild(sc, c) == IndexOfFrom(sc, c, 1)

\* append(s[:index], s[index+1:]...)
RemoveAt(s, i) == Take(s, i - 1) \o Drop(s, i)

\* the parent of current with current taken out of its children
Detach(ns, current) ==
    LET p == ns[ns[current].parent]
        p1 == CASE ns[current].kind = staticKind ->
                     [p EXCEPT !.staticChildren =
                                  RemoveAt(@, IndexOfChild(p.staticChildren, current))]
                [] ns[current].kind = paramKind -> [p EXCEPT !.paramChild = Nil]
                [] ns[current].kind = anyKind -> [p EXCEPT !.anyChild = Nil]
    IN [p1 EXCEPT !.isLeaf = p1.anyChild = Nil /\ p1.paramChild = Nil
                             /\ Len(p1.staticChildren) = 0]

\* the pruning loop of Remove, from the node current upwards
RECURSIVE PruneFrom(_, _)
PruneFrom(ns, current) ==
    LET parent == ns[current].parent
    IN IF parent = Nil THEN ns
       ELSE LET p1 == Detach(ns, current)
                ns1 == [ns EXCEPT ![parent] = p1]
            IN IF ~p1.isLeaf \/ p1.isHandler THEN ns1 ELSE PruneFrom(ns1, parent)

\* the nodes the root still reaches: a detached node is garbage
RECURSIVE ReachableFrom(_, _)
ReachableFrom(ns, n) ==
    LET kids == {ns[n].staticChildren[i] : i \in 1..Len(ns[n].staticChildren)}
                \cup ({ns[n].paramChild, ns[n].anyChild} \ {Nil})
    IN {n} \cup UNION {ReachableFrom(ns, k) : k \in kids}

Collect(ns) == [k \in ReachableFrom(ns, Root) |-> ns[k]]

\* A node's address carries no meaning: after every operation each node is
\* named by its place in the preorder walk of the tree (the root is Root).
RECURSIVE Preorder(_, _)
RECURSIVE PreorderAll(_, _, _)
PreorderAll(ns, sc, i) ==
    IF i > Len(sc) THEN << >> ELSE Preorder(ns, sc[i]) \o PreorderAll(ns, sc, i + 1)
Preorder(ns, n) ==
    <<n>> \o PreorderAll(ns, ns[n].staticChildren, 1)
          \o (IF ns[n].paramChild # Nil THEN Preorder(ns, ns[n].paramChild) ELSE << >>)
          \o (IF ns[n].anyChild # Nil THEN Preorder(ns, ns[n].anyChild) ELSE << >>)

Renumber(ns) ==
    LET order == Preorder(ns, Root)
        new(k) == IF k = Nil THEN Nil ELSE CHOOSE i \in 1..Len(order) : order[i] = k
    IN [i \in 1..Len(order) |->
          LET n == ns[order[i]]
          IN [n EXCEPT !.parent = new(@), !.paramChild = new(@), !.anyChild = new(@),
                       !.staticChildren = [j \in 1..Len(@) |-> new(@[j])]]]

\* Remove without the test that the node has an entry for the method
RemoveOpAnyMethod(ns, rs, method, path0) ==
    LET failed == [err |-> TRUE, panic |-> FALSE, nodes |-> ns, routes |-> rs]
    IN IF ns[Root].isLeaf /\ ~ns[Root].isHandler THEN failed
       ELSE LET path == NormalizePath(path0)
                nodeToRemove == LocateFrom(ns, Root, 0, path)
            IN IF nodeToRemove = Nil THEN failed
               ELSE IF ~ns[nodeToRemove].isHandler THEN failed
               ELSE LET ns1 == [ns EXCEPT ![nodeToRemove] = SetHandler(@, method, NilRM)]
                        found == RouteIndex(rs, method, path)
                        rIndex == IF found = 0 THEN 1 ELSE found
                    IN IF Len(rs) = 0
                         THEN [err |-> FALSE, panic |-> TRUE, nodes |-> ns1, routes |-> rs]
                         ELSE [err |-> FALSE, panic |-> FALSE,
                               nodes |-> IF ~ns1[nodeToRemove].isHandler
                                            /\ ns1[nodeToRemove].isLeaf
                                           THEN Collect(PruneFrom(ns1, nodeToRemove))
                                           ELSE ns1,
                               routes |-> RemoveAt(rs, rIndex)]

\* r.Remove(method, path) on the router (ns, rs)
RemoveOp(ns, rs, method, path0) ==
    LET failed == [err |-> TRUE, panic |-> FALSE, nodes |-> ns, routes |-> rs]
    IN IF ns[Root].isLeaf /\ ~ns[Root].isHandler THEN failed
       ELSE LET path == NormalizePath(path0)
                nodeToRemove == LocateFrom(ns, Root, 0, path)
            IN IF nodeToRemove = Nil THEN failed
               ELSE IF ~ns[nodeToRemove].isHandler THEN failed
               ELSE IF MethodsFind(ns[nodeToRemove].methods, method) = NilRM THEN failed
               ELSE IF MethodsSetPanics(method, NilRM)
                 THEN [err |-> FALSE, panic |-> TRUE, nodes |-> ns, routes |-> rs]
               ELSE LET ns1 == [ns EXCEPT ![nodeToRemove] = SetHandler(@, method, NilRM)]
                        found == RouteIndex(rs, method, path)
                        rIndex == IF found = 0 THEN 1 ELSE found
                    IN IF Len(rs) = 0
                         THEN \* r.routes[rIndex+1:] is out of range
                              [err |-> FALSE, panic |-> TRUE, nodes |-> ns1, routes |-> rs]
                         ELSE [err |-> FALSE, panic |-> FALSE,
                               nodes |-> IF ~ns1[nodeToRemove].isHandler
                                            /\ ns1[nodeToRemove].isLeaf
                                           THEN Collect(PruneFrom(ns1, nodeToRemove))
                                           ELSE ns1,
                               routes |-> RemoveAt(rs, rIndex)]

-----------------------------------------------------------------------------
(* Match *)

NotFoundRouteName == "EchoRouteNotFound"
MethodNotAllowedRouteName == "EchoRouteMethodNotAllowed"

notFoundRouteInfo ==
    [method |-> "", path |-> << >>, params |-> << >>, name |-> NotFoundRouteName]
methodNotAllowedRouteInfo ==
    [method |-> "", path |-> << >>, params |-> << >>, name |-> MethodNotAllowedRouteName]

notFoundHandler == "notFoundHandler"
methodNotAllowedHandler == "methodNotAllowedHandler"

RouteMatchNotFound == "NotFound"
RouteMatchMethodNotAllowed == "MethodNotAllowed"
RouteMatchFound == "Found"

\* url.PathUnescape: the hexadecimal digits and the bytes they decode to
HexDigits == <<"0", "1", "2", "3", "4", "5", "6", "7", "8", "9",
               "A", "B", "C", "D", "E", "F">>
IsHex(c) == \E k \in 1..16 : HexDigits[k] = c
UnHex(c) == (CHOOSE k \in 1..16 : HexDigits[k] = c) - 1
ByteChar(n) ==
    CASE n = 37 -> "%" [] n = 42 -> "*" [] n = 47 -> "/" [] n = 49 -> "1"
      [] n = 50 -> "2" [] n = 58 -> ":" [] n = 97 -> "a" [] n = 98 -> "b"
      [] n = 99 -> "c" [] OTHER -> ToString(n)

RECURSIVE UnescapeFrom(_, _, _)
UnescapeFrom(s, i, out) ==
    IF i > Len(s) THEN [err |-> FALSE, value |-> out]
    ELSE IF s[i] = "%"
      THEN IF i + 2 > Len(s) \/ ~IsHex(s[i + 1]) \/ ~IsHex(s[i + 2])
             THEN [err |-> TRUE, value |-> s]
             ELSE UnescapeFrom(s, i + 3,
                               Append(out, ByteChar(16 * UnHex(s[i + 1]) + UnHex(s[i + 2]))))
      ELSE UnescapeFrom(s, i + 1, Append(out, s[i]))

PathUnescape(s) == UnescapeFrom(s, 1, << >>)

\* path := req.URL.Path; if !r.useEscapedPathForRouting && req.URL.RawPath != "" ...
MatchPath(useEscaped, req) ==
    IF ~useEscaped /\ req.rawPath # << >> THEN req.rawPath ELSE req.path

\* the state of Match at its entry: the vector stretched to its capacity
MatchStart(path, pathParams) ==
    [pc |-> "loop", cur |-> Root, search |-> path, searchIndex |-> 0,
     paramIndex |-> 0, params |-> pathParams, best |-> Nil, matched |-> NilRM,
     reached |-> << >>]

\* a backtrack that restores the search but stays on the node it leaves
BacktrackStaysPut(ns, path, m, fromKind) ==
    LET previous == ns[m.cur]
        nk == IF previous.kind = anyKind THEN staticKind
              ELSE IF previous.kind = staticKind THEN paramKind
              ELSE anyKind
        m2 == IF fromKind = staticKind THEN m
              ELSE LET m3 == IF previous.kind = staticKind
                               THEN [m EXCEPT !.searchIndex = @ - Len(previous.prefix)]
                               ELSE [m EXCEPT
                                       !.paramIndex = @ - 1,
                                       !.searchIndex = @ - Len(m.params[m.paramIndex].value),
                                       !.params[m.paramIndex].value = << >>]
                   IN [m3 EXCEPT !.search = Drop(path, m3.searchIndex)]
    IN [m |-> m2, nk |-> nk, valid |-> previous.parent # Nil]

\* a backtrack that leaves a Param or catch-all node without stepping the
\* parameter index back
BacktrackKeepsParamIndex(ns, path, m, fromKind) ==
    LET previous == ns[m.cur]
        nk == IF previous.kind = anyKind THEN staticKind
              ELSE IF previous.kind = staticKind THEN paramKind
              ELSE anyKind
        m1 == [m EXCEPT !.cur = previous.parent]
        m2 == IF fromKind = staticKind THEN m1
              ELSE LET m3 == IF previous.kind = staticKind
                               THEN [m1 EXCEPT !.searchIndex = @ - Len(previous.prefix)]
                               ELSE [m1 EXCEPT
                                       !.searchIndex = @ - Len(m.params[m.paramIndex].value),
                                       !.params[m.paramIndex].value = << >>]
                   IN [m3 EXCEPT !.search = Drop(path, m3.searchIndex)]
    IN [m |-> m2, nk |-> nk, valid |-> previous.parent # Nil]

\* backtrackToNextNodeKind(fromKind): the state with currentNode, searchIndex,
\* paramIndex and search as the closure leaves them, and its two results
Backtrack(ns, path, m, fromKind) ==
    LET previous == ns[m.cur]
        nk == IF previous.kind = anyKind THEN staticKind
              ELSE IF previous.kind = staticKind THEN paramKind
              ELSE anyKind
        m1 == [m EXCEPT !.cur = previous.parent]
        m2 == IF fromKind = staticKind THEN m1
              ELSE LET m3 == IF previous.kind = staticKind
                               THEN [m1 EXCEPT !.searchIndex = @ - Len(previous.prefix)]
                               ELSE [m1 EXCEPT
                                       !.paramIndex = @ - 1,
                                       !.searchIndex = @ - Len(m.params[m.paramIndex].value),
                                       !.params[m.paramIndex].value = << >>]
                   IN [m3 EXCEPT !.search = Drop(path, m3.searchIndex)]
    IN [m |-> m2, nk |-> nk, valid |-> previous.parent # Nil]

\* where control goes after a backtrack made from the block of kind fromKind
AfterBacktrack(bt, fromKind) ==
    IF ~bt.valid THEN [bt.m EXCEPT !.pc = "done"]
    ELSE IF bt.nk = paramKind THEN [bt.m EXCEPT !.pc = "param"]
    ELSE IF bt.nk = anyKind /\ fromKind = anyKind THEN [bt.m EXCEPT !.pc = "any"]
    ELSE [bt.m EXCEPT !.pc = "done"]

\* the bookkeeping of Match with the latest node kept as the best path match
CheckHandlerKeepsLatest(ns, m, method) ==
    LET rm == MethodsFind(ns[m.cur].methods, method)
        m1 == [m EXCEPT !.best = m.cur, !.reached = Append(@, m.cur)]
    IN IF rm # NilRM THEN [m1 EXCEPT !.matched = rm, !.pc = "done"] ELSE m1

\* if previousBestMatchNode == nil { previousBestMatchNode = currentNode }
\* if rMethod := currentNode.methods.find(req.Method); rMethod != nil { ...; break }
CheckHandler(ns, m, method) ==
    LET rm == MethodsFind(ns[m.cur].methods, method)
        m1 == [m EXCEPT !.best = IF @ = Nil THEN m.cur ELSE @,
                        !.reached = Append(@, m.cur)]
    IN IF rm # NilRM THEN [m1 EXCEPT !.matched = rm, !.pc = "done"] ELSE m1

\* the head of the loop down to the Param label
StepLoop(ns, path, method, m) ==
    LET n == ns[m.cur]
        prefixLen == IF n.kind = staticKind THEN Len(n.prefix) ELSE 0
        lcpLen == IF n.kind = staticKind THEN Lcp(m.search, n.prefix) ELSE 0
    IN IF lcpLen # prefixLen
         THEN AfterBacktrack(Backtrack(ns, path, m, staticKind), staticKind)
         ELSE LET m1 == [m EXCEPT !.search = Drop(@, lcpLen),
                                  !.searchIndex = @ + lcpLen]
                  m2 == IF m1.search = << >> /\ n.isHandler
                          THEN CheckHandler(ns, m1, method) ELSE m1
                  child == IF m2.search # << >>
                             THEN FindStaticChild(ns, m2.cur, m2.search[1]) ELSE Nil
              IN IF m2.pc = "done" THEN m2
                 ELSE IF child # Nil THEN [m2 EXCEPT !.cur = child, !.pc = "loop"]
                 ELSE [m2 EXCEPT !.pc = "param"]

\* the Param block with the value always ending at the next slash
StepParamToSlash(ns, m) ==
    LET child == ns[m.cur].paramChild
    IN IF m.search # << >> /\ child # Nil
         THEN LET i == ScanToSlash(m.search, 0)
              IN [m EXCEPT !.cur = child,
                           !.params[m.paramIndex + 1].value = Take(m.search, i),
                           !.paramIndex = @ + 1,
                           !.search = Drop(@, i),
                           !.searchIndex = @ + i,
                           !.pc = "loop"]
         ELSE [m EXCEPT !.pc = "any"]

\* the Param block without its test of the remaining search
StepParamOnEmpty(ns, m) ==
    LET child == ns[m.cur].paramChild
    IN IF child # Nil
         THEN LET l == Len(m.search)
                  i == IF ns[child].isLeaf THEN l ELSE ScanToSlash(m.search, 0)
              IN [m EXCEPT !.cur = child,
                           !.params[m.paramIndex + 1].value = Take(m.search, i),
                           !.paramIndex = @ + 1,
                           !.search = Drop(@, i),
                           !.searchIndex = @ + i,
                           !.pc = "loop"]
         ELSE [m EXCEPT !.pc = "any"]

\* the Param label down to the Any label
StepParam(ns, m) ==
    LET child == ns[m.cur].paramChild
    IN IF m.search # << >> /\ child # Nil
         THEN LET l == Len(m.search)
                  i == IF ns[child].isLeaf THEN l ELSE ScanToSlash(m.search, 0)
              IN [m EXCEPT !.cur = child,
                           !.params[m.paramIndex + 1].value = Take(m.search, i),
                           !.paramIndex = @ + 1,
                           !.search = Drop(@, i),
                           !.searchIndex = @ + i,
                           !.pc = "loop"]
         ELSE [m EXCEPT !.pc = "any"]

\* the Any block with the value ending at the next slash
StepAnyToSlash(ns, path, method, m) ==
    LET child == ns[m.cur].anyChild
        i == ScanToSlash(m.search, 0)
        m1 == IF child # Nil
                THEN CheckHandler(ns,
                        [m EXCEPT !.cur = child,
                                  !.params[ns[child].paramsCount].value = Take(m.search, i),
                                  !.paramIndex = @ + 1,
                                  !.searchIndex = @ + Len(m.search),
                                  !.search = << >>],
                        method)
                ELSE m
    IN IF m1.pc = "done" THEN m1
       ELSE AfterBacktrack(Backtrack(ns, path, m1, anyKind), anyKind)

\* the Any label down to the end of the loop body
StepAny(ns, path, method, m) ==
    LET child == ns[m.cur].anyChild
        m1 == IF child # Nil
                THEN CheckHandler(ns,
                        [m EXCEPT !.cur = child,
                                  !.params[ns[child].paramsCount].value = m.search,
                                  !.paramIndex = @ + 1,
                                  !.searchIndex = @ + Len(m.search),
                                  !.search = << >>],
                        method)
                ELSE m
    IN IF m1.pc = "done" THEN m1
       ELSE AfterBacktrack(Backtrack(ns, path, m1, anyKind), anyKind)

\* one pass of control from a label of the loop to the next label or break
MatchStep(ns, path, method, m) ==
    CASE m.pc = "loop" -> StepLoop(ns, path, method, m)
      [] m.pc = "param" -> StepParam(ns, m)
      [] m.pc = "any" -> StepAny(ns, path, method, m)

RECURSIVE MatchLoop(_, _, _, _)
MatchLoop(ns, path, method, m) ==
    IF m.pc = "done" THEN m ELSE MatchLoop(ns, path, method, MatchStep(ns, path, method, m))

\* for i, name := range matchedRouteMethod.params { (*pathParams)[i].Name = name }
SetNames(params, names) ==
    [i \in 1..Len(params) |->
        IF i <= Len(names) THEN [params[i] EXCEPT !.name = names[i]] ELSE params[i]]

\* the values decoded a second time
UnescapeValuesTwice(params) ==
    [i \in 1..Len(params) |->
        [params[i] EXCEPT !.value = PathUnescape(PathUnescape(@).value).value]]

\* for i, p := range *pathParams { tmpVal, err := url.PathUnescape(p.Value) ... }
UnescapeValues(params) ==
    [i \in 1..Len(params) |-> [params[i] EXCEPT !.value = PathUnescape(@).value]]

\* what Match does after the loop with the state m it ended in
MatchFinish(ns, unescape, m) ==
    LET notFound == [type |-> RouteMatchNotFound, handler |-> notFoundHandler,
                     routePath |-> << >>, routeInfo |-> notFoundRouteInfo]
        out(res, ps, node, panic) ==
            [result |-> res, params |-> ps, node |-> node, panic |-> panic,
             best |-> m.best, reached |-> m.reached]
    IN IF m.cur = Nil /\ m.best = Nil
         THEN out(notFound, << >>, Nil, FALSE)   \* nothing matched at all
       ELSE IF m.matched = NilRM /\ m.best = Nil
         THEN out(notFound, m.params, Nil, TRUE) \* previousBestMatchNode is nil
       ELSE LET cur == IF m.matched # NilRM THEN m.cur ELSE m.best
                rm == m.matched
                res == IF rm # NilRM
                         THEN [type |-> RouteMatchFound, handler |-> rm[1].handler,
                               routePath |-> rm[1].path,
                               routeInfo |-> [method |-> rm[1].method, path |-> rm[1].path,
                                              params |-> rm[1].params, name |-> rm[1].name]]
                       ELSE IF ns[cur].isHandler
                         THEN [type |-> RouteMatchMethodNotAllowed,
                               handler |-> methodNotAllowedHandler,
                               routePath |-> ns[cur].originalPath,
                               routeInfo |-> methodNotAllowedRouteInfo]
                       ELSE [notFound EXCEPT !.routePath = ns[cur].originalPath]
                cut == Take(m.params, ns[cur].paramsCount)
                named == IF rm # NilRM THEN SetNames(cut, rm[1].params) ELSE cut
                final == IF unescape /\ ns[cur].kind # staticKind
                           THEN UnescapeValues(named) ELSE named
            IN out(res, final, cur,
                   rm # NilRM /\ Len(rm[1].params) > Len(cut))

\* r.Match(req, pathParams) on the arena: the RouteMatch and the vector it leaves
MatchOp(ns, unescape, useEscaped, req, pathParams) ==
    LET path == MatchPath(useEscaped, req)
    IN MatchFinish(ns, unescape,
                   MatchLoop(ns, path, req.method, MatchStart(path, pathParams)))

-----------------------------------------------------------------------------
(* The routes, patterns and requests the router is driven with *)

P_ac == <<"/", "a", "/", "c">>
\* the same route written without its leading slash
U_ac == <<"a", "/", "c">>
P_ax == <<"/", "a", "/", ":", "x">>
P_axy == <<"/", "a", "/", ":", "x", "/", ":", "y">>
P_abS == <<"/", "a", "/", "b", "/", "*">>
P_aS == <<"/", "a", "/", "*">>

Patterns == {P_ac, P_ax, P_axy, P_abS, P_aS}
Methods == {GET, POST}

Routable(method, path, handler) ==
    [method |-> method, path |-> path, name |-> "", handler |-> handler,
     middlewares |-> << >>]

Routables ==
    {Routable(GET, P_ac, "h1"), Routable(GET, P_ax, "h1"), Routable(GET, P_ax, "h2"),
     Routable(GET, P_axy, "h1"), Routable(POST, P_abS, "h2"), Routable(GET, P_aS, "h1"),
     Routable(GET, P_ax, NoHandler)}

\* request paths without escapes: URL.RawPath is empty
PlainPaths ==
    {P_ac, <<"/", "a", "/", "1">>, <<"/", "a", "/", "b", "/", "c">>,
     <<"/", "a", "/", "1", "/", "2">>, <<"/", "a", "/", "b", "/">>, <<"/", "c">>,
     <<"/", "a", "/", "%">>}

\* raw paths that are not the default encoding of their decoded path
EscapedPaths ==
    {<<"/", "a", "/", "%", "3", "1">>, <<"/", "a", "/", "b", "%", "2", "F", "c">>,
     <<"/", "a", "/", "%", "2", "5", "3", "1">>}

Requests ==
    {[method |-> m, path |-> p, rawPath |-> << >>] : m \in Methods, p \in PlainPaths}
    \cup {[method |-> m, path |-> PathUnescape(p).value, rawPath |-> p] :
             m \in Methods, p \in EscapedPaths}

\* the capacity of the caller's parameter vector
ParamsCap == 2

\* what the vector holds from its earlier use
StaleParam == [name |-> <<"?">>, value |-> <<"?">>]
CallerParams == [i \in 1..ParamsCap |-> StaleParam]

-----------------------------------------------------------------------------
(* The router as a state machine *)

Idle == [op |-> "none"]

\* the goroutines that may be inside Match, and one that is not
Goroutines == 1..MaxMatchers
Resting == [pc |-> "idle"]

\* The RouterConfig values the router is built with.  Add and Remove read
\* allowOverwritingRoute only and Match reads the other two only, so each
\* value of the former is paired with one value of unescapePathParamValues
\* and both values of useEscapedPathForRouting.
RouterConfigs ==
    {c \in BOOLEAN \X BOOLEAN \X BOOLEAN : c[1] = c[2]}

Init ==
    /\ nodes = (Root :> RootNode)
    /\ routes = << >>
    /\ \E c \in RouterConfigs :
          /\ allowOverwritingRoute = c[1]
          /\ unescapePathParamValues = c[2]
          /\ useEscapedPathForRouting = c[3]
    /\ last = Idle
    /\ matchers = [g \in Goroutines |-> Resting]

Config == <<allowOverwritingRoute, unescapePathParamValues, useEscapedPathForRouting>>

\* no goroutine is inside Match: the tree is changed only then
Quiet == \A g \in Goroutines : matchers[g] = Resting

\* a call of r.Add with a routable of the set S
AddFrom(S) ==
    \E routable \in S :
       LET r == AddOp(nodes, routes, allowOverwritingRoute, routable)
       IN /\ last = Idle
          /\ Quiet
          /\ Len(r.routes) <= MaxRoutes
          /\ nodes' = Renumber(r.nodes)
          /\ routes' = r.routes
          /\ last' = [op |-> "Add", routable |-> routable, err |-> r.err, ri |-> r.ri,
                      existed |-> RouteIndex(routes, routable.method, routable.path) # 0]
          /\ UNCHANGED <<Config, matchers>>

Add == AddFrom(Routables)

\* a call of r.Remove with a method of the set M and a path of the set P
RemoveFrom(M, P) ==
    \E method \in M, path \in P :
       LET r == RemoveOp(nodes, routes, method, path)
       IN /\ last = Idle
          /\ Quiet
          /\ nodes' = Renumber(r.nodes)
          /\ routes' = r.routes
          /\ last' = [op |-> "Remove", method |-> method, path |-> path, err |-> r.err,
                      panic |-> r.panic,
                      registered |-> RouteIndex(routes, method, path) # 0]
          /\ UNCHANGED <<Config, matchers>>

Remove == RemoveFrom(Methods, Patterns)

\* a call of r.Match with a request of the set R
MatchFrom(R) ==
    \E req \in R :
       LET r == MatchOp(nodes, unescapePathParamValues, useEscapedPathForRouting, req,
                        CallerParams)
       IN /\ last = Idle
          /\ last' = [op |-> "Match", req |-> req, result |-> r.result,
                      params |-> r.params, panic |-> r.panic, node |-> r.node,
                      best |-> r.best, reached |-> r.reached]
          /\ UNCHANGED <<nodes, routes, Config, matchers>>

Match == MatchFrom(Requests)

\* the caller takes the outcome of the call; the router is ready for the next
Return ==
    /\ last # Idle
    /\ last' = Idle
    /\ UNCHANGED <<nodes, routes, Config, matchers>>

Next == Add \/ Remove \/ Match \/ Return

Spec == Init /\ [][Next]_vars

\* A fresh router on which routes are only added, among them a route written
\* without its leading slash, and which is asked for the strings of the
\* patterns themselves.
UnnormalisedRoutables == {Routable(GET, U_ac, "h1")}
PatternRequests ==
    {[method |-> m, path |-> p, rawPath |-> << >>] :
        m \in Methods, p \in Patterns \cup {U_ac}}

AddAny == AddFrom(Routables \cup UnnormalisedRoutables)
MatchAny == MatchFrom(PatternRequests)

NextAdd == AddAny \/ MatchAny \/ Return

SpecAdd == Init /\ [][NextAdd]_vars

\* A router that is also given a route outside /a/, a route written without
\* its leading slash and the same route written with it, and from which these
\* are removed again under either spelling.
P_c == <<"/", "c">>

WideRoutables ==
    {Routable(GET, P_ac, "h1"), Routable(GET, U_ac, "h2"), Routable(GET, P_ax, "h1"),
     Routable(GET, P_c, "h1")}
WidePatterns == {P_ac, U_ac, P_ax, P_c}
WideRequests ==
    {[method |-> GET, path |-> p, rawPath |-> << >>] :
        p \in {P_ac, U_ac, P_c, <<"/", "a", "/", "1">>}}

AddWide == AddFrom(WideRoutables)
RemoveWide == RemoveFrom({GET}, WidePatterns)
MatchWide == MatchFrom(WideRequests)

NextWide == AddWide \/ RemoveWide \/ MatchWide \/ Return

SpecWide == Init /\ [][NextWide]_vars

\* Match called from several goroutines at once on a router that no Add or
\* Remove is working on.  A goroutine inside Match is at a label of the loop
\* (its state m), each with the vector it passed; the goroutines take their
\* passes through the loop in any order.
ConcRoutables == {Routable(GET, P_ax, "h1"), Routable(GET, P_aS, "h2")}
ConcRequests ==
    {[method |-> GET, path |-> p, rawPath |-> << >>] :
        p \in {<<"/", "a", "/", "1">>, <<"/", "a", "/", "1", "/", "2">>, <<"/", "a", "/">>}}

AddQuiet == AddFrom(ConcRoutables)

\* the goroutine enters Match: the choice of the path and the variables of 725-738
MatchEnterFrom(g, R) ==
    \E req \in R :
       /\ last = Idle
       /\ matchers[g] = Resting
       /\ matchers' = [matchers EXCEPT ![g] =
             [pc |-> "running", req |-> req,
              m |-> MatchStart(MatchPath(useEscapedPathForRouting, req), CallerParams)]]
       /\ UNCHANGED <<nodes, routes, Config, last>>

MatchEnter(g) == MatchEnterFrom(g, ConcRequests)

\* one pass of goroutine g through the loop with all goroutines writing their
\* values into one vector
MatchPassSharedVector(ms, g) ==
    LET m1 == MatchStep(nodes, MatchPath(useEscapedPathForRouting, ms[g].req),
                        ms[g].req.method, ms[g].m)
    IN [h \in DOMAIN ms |->
          IF h = g THEN [ms[h] EXCEPT !.m = m1]
          ELSE IF ms[h].pc = "running" THEN [ms[h] EXCEPT !.m.params = m1.params]
          ELSE ms[h]]

\* one pass of goroutine g through the loop; it reads the tree and writes its
\* own locals and its own vector
MatchPass(ms, g) ==
    [ms EXCEPT ![g].m = MatchStep(nodes, MatchPath(useEscapedPathForRouting, ms[g].req),
                                  ms[g].req.method, ms[g].m)]

MatchAdvance(g) ==
    /\ matchers[g].pc = "running"
    /\ matchers[g].m.pc # "done"
    /\ matchers' = MatchPass(matchers, g)
    /\ UNCHANGED <<nodes, routes, Config, last>>

\* the goroutine leaves the loop and Match returns
MatchReturn(g) ==
    /\ matchers[g].pc = "running"
    /\ matchers[g].m.pc = "done"
    /\ matchers' = [matchers EXCEPT ![g] =
          [pc |-> "returned", req |-> matchers[g].req,
           out |-> MatchFinish(nodes, unescapePathParamValues, matchers[g].m)]]
    /\ UNCHANGED <<nodes, routes, Config, last>>

\* the caller has taken the RouteMatch
MatchJoin(g) ==
    /\ matchers[g].pc = "returned"
    /\ matchers' = [matchers EXCEPT ![g] = Resting]
    /\ UNCHANGED <<nodes, routes, Config, last>>

NextConc ==
    \/ AddQuiet
    \/ Return
    \/ \E g \in Goroutines : MatchEnter(g)
    \/ \E g \in Goroutines : MatchAdvance(g)
    \/ \E g \in Goroutines : MatchReturn(g)
    \/ \E g \in Goroutines : MatchJoin(g)

SpecConc == Init /\ [][NextConc]_vars

\* One caller whose Match is followed from label to label, on trees with
\* static, Param and catch-all nodes below one another, a catch-all below a
\* Param node among them.
P_axS == <<"/", "a", "/", ":", "x", "/", "*">>

StepRoutables ==
    {Routable(GET, P_ac, "h1"), Routable(GET, P_ax, "h1"), Routable(GET, P_axy, "h1"),
     Routable(GET, P_aS, "h2"), Routable(POST, P_abS, "h2"), Routable(GET, P_axS, "h2")}
StepRequests ==
    {[method |-> GET, path |-> p, rawPath |-> << >>] :
        p \in {<<"/", "a", "/", "1">>, <<"/", "a", "/", "1", "/", "2">>,
               <<"/", "a", "/", "b", "/", "c">>, <<"/", "a", "/", "b", "/">>,
               P_ac, <<"/", "a", "/">>}}
    \cup {[method |-> POST, path |-> <<"/", "a", "/", "b", "/", "c">>, rawPath |-> << >>]}

AddStep == AddFrom(StepRoutables)
StepEnter == MatchEnterFrom(1, StepRequests)

NextSteps ==
    \/ AddStep
    \/ Return
    \/ StepEnter
    \/ MatchAdvance(1)
    \/ MatchReturn(1)
    \/ MatchJoin(1)

SpecSteps == Init /\ [][NextSteps]_vars

\* A router that is given routes of pairwise distinct (method, pattern), two
\* of them of one shape under different parameter names.
P_ay == <<"/", "a", "/", ":", "y">>

OrderRoutables ==
    {Routable(GET, P_ac, "h1"), Routable(GET, P_ax, "h1"), Routable(GET, P_ay, "h2"),
     Routable(POST, P_aS, "h2"), Routable(GET, P_axy, "h2")}

\* a route given a second time is refused or leaves tree and registry as they
\* are, so the registry is the order in which the routes were first given
AddOrder == AddFrom(OrderRoutables)

NextOrder == AddOrder \/ Return

SpecOrder == Init /\ [][NextOrder]_vars

\* NewRouter followed by Add of the routables of the sequence rs, from the i-th on
RECURSIVE AddAllFrom(_, _, _, _)
AddAllFrom(ns, reg, rs, i) ==
    IF i > Len(rs) THEN ns
    ELSE LET r == AddOp(ns, reg, allowOverwritingRoute, rs[i])
         IN AddAllFrom(Renumber(r.nodes), r.routes, rs, i + 1)

AddAll(rs) == AddAllFrom(Root :> RootNode, << >>, rs, 1)

\* A router with routes of a method that has no slot of its own in
\* routeMethods and is kept in the anyOther map.
LOCK == "LOCK"

OtherRoutables ==
    {Routable(LOCK, P_ac, "h1"), Routable(GET, P_ac, "h2"), Routable(LOCK, P_ax, "h1")}
OtherRequests ==
    {[method |-> m, path |-> p, rawPath |-> << >>] :
        m \in {LOCK, GET}, p \in {P_ac, <<"/", "a", "/", "1">>}}

AddOther == AddFrom(OtherRoutables)
RemoveOther == RemoveFrom({LOCK, GET}, {P_ac, P_ax})
MatchOther == MatchFrom(OtherRequests)

NextOther == AddOther \/ RemoveOther \/ MatchOther \/ Return

SpecOther == Init /\ [][NextOther]_vars

\* A router whose root carries a route of its own, is emptied of its children
\* by Remove and is split by a later Add.
P_a == <<"/", "a", "/">>

PruneRoutables ==
    {Routable(GET, P_a, "h1"), Routable(GET, P_ac, "h1"), Routable(GET, P_c, "h2")}
PrunePatterns == {P_a, P_ac, P_c}
PruneRequests ==
    {[method |-> GET, path |-> p, rawPath |-> << >>] : p \in PrunePatterns}

AddPrune == AddFrom(PruneRoutables)
RemovePrune == RemoveFrom({GET}, PrunePatterns)
MatchPrune == MatchFrom(PruneRequests)

NextPrune == AddPrune \/ RemovePrune \/ MatchPrune \/ Return

SpecPrune == Init /\ [][NextPrune]_vars

\* One goroutine that is scheduled until its Match returns, on the trees that
\* Add and Remove build. The loop of Match takes no lock and waits for nothing,
\* so a matcher that can take a step takes it.
TermRoutables ==
    {Routable(GET, P_ax, "h1"), Routable(GET, P_axy, "h1"), Routable(GET, P_aS, "h2"),
     Routable(POST, P_abS, "h2")}
TermPatterns == {P_ax, P_axy, P_aS, P_abS}
TermRequests ==
    {[method |-> GET, path |-> p, rawPath |-> << >>] :
        p \in {<<"/", "a", "/", "1", "/", "2">>, <<"/", "a", "/", "b", "/", "c">>,
               <<"/", "a", "/", "b", "/">>, <<"/", "b">>}}

AddTerm == AddFrom(TermRoutables)
RemoveTerm == RemoveFrom({GET, POST}, TermPatterns)
TermEnter == MatchEnterFrom(1, TermRequests)

NextTerm ==
    \/ AddTerm
    \/ RemoveTerm
    \/ Return
    \/ TermEnter
    \/ MatchAdvance(1)
    \/ MatchReturn(1)
    \/ MatchJoin(1)

SpecTerm ==
    Init /\ [][NextTerm]_vars /\ WF_vars(MatchAdvance(1)) /\ WF_vars(MatchReturn(1))

\* Add running next to Match with no lock between them: the split of insert
\* is taken in four steps, and a matcher may take its own steps between them.
\* Nodes keep their addresses here, since a matcher holds one.

\* where insert(static, path, ...) ends its descent from cur, and in which branch
RECURSIVE SplitSiteFrom(_, _, _)
SplitSiteFrom(ns, cur, search) ==
    LET lcpLen == Lcp(search, ns[cur].prefix)
        at(branch) == [branch |-> branch, cur |-> cur, search |-> search,
                       lcpLen |-> lcpLen]
    IN IF lcpLen = 0 THEN at("root")
       ELSE IF lcpLen < Len(ns[cur].prefix) THEN at("split")
       ELSE IF lcpLen < Len(search)
         THEN LET s2 == Drop(search, lcpLen)
                  c == FindChildWithLabel(ns, cur, s2[1])
              IN IF c # Nil THEN SplitSiteFrom(ns, c, s2) ELSE at("child")
       ELSE at("exists")

SplitSite(ns, path) == SplitSiteFrom(ns, Root, path)

\* n := newNode(...) with all that currentNode has, and the children handed to n
SplitAlloc(ns, cur, lcpLen) ==
    LET c == ns[cur]
        nid == FreshId(ns)
        n == NewNode(c.kind, Drop(c.prefix, lcpLen), cur, c.staticChildren, c.scNil,
                     c.methods, c.paramsCount, c.originalPath, c.paramChild, c.anyChild)
    IN Reparent(ns, c, nid) @@ (nid :> n)

\* a reset of the split node that leaves its children and method table in place
SplitResetKeepsAll(ns, cur, lcpLen) ==
    [ns EXCEPT ![cur] = [@ EXCEPT !.prefix = Take(@, lcpLen)]]

\* // Reset parent node
SplitReset(ns, cur, lcpLen) ==
    [ns EXCEPT ![cur] =
        [@ EXCEPT !.kind = staticKind, !.label = ns[cur].prefix[1],
                  !.prefix = Take(@, lcpLen),
                  !.staticChildren = << >>, !.scNil = TRUE,
                  !.methods = NewRouteMethods, !.originalPath = << >>,
                  !.paramsCount = 0, !.paramChild = Nil, !.anyChild = Nil,
                  !.isLeaf = FALSE, !.isHandler = FALSE]]

\* currentNode.addStaticChild(n)
SplitAttach(ns, cur, nid) == [ns EXCEPT ![cur] = AddStaticChild(@, nid)]

\* the rest of the split branch: the route at the parent node or in a new child
SplitFinish(ns, cur, search, lcpLen, t, method, ri) ==
    IF lcpLen = Len(search)
      THEN LET p1 == AttachHandlerAndPath([ns[cur] EXCEPT !.kind = t], method, ri)
           IN [ns EXCEPT ![cur] = [p1 EXCEPT !.isLeaf = IsLeafNow(p1)]]
      ELSE LET cid == FreshId(ns)
               n2 == AttachHandler(
                         NewNode(t, Drop(search, lcpLen), cur, << >>, TRUE,
                                 NewRouteMethods, 0, ri.path, Nil, Nil),
                         method, ri)
               p1 == AddStaticChild(ns[cur], cid)
           IN [ns EXCEPT ![cur] = [p1 EXCEPT !.isLeaf = IsLeafNow(p1)]] @@ (cid :> n2)

P_ab == <<"/", "a", "/", "b">>

RaceRoutables ==
    {Routable(GET, P_ac, "h1"), Routable(GET, P_ab, "h1"), Routable(GET, P_a, "h2"),
     Routable(POST, P_a, "h2")}
RaceRequests ==
    {[method |-> GET, path |-> p, rawPath |-> << >>] : p \in {P_ac, P_ab, P_a}}

\* the requests for a route that is registered
RegisteredRequests ==
    {req \in RaceRequests : RouteIndex(routes, req.method, req.path) # 0}

\* an Add with no Match beside it
RaceAddAlone == AddFrom(RaceRoutables)

\* Add up to the first write of a split: the duplicate test, the descent of
\* insert, the new node n and the children handed over to it
RaceAddBegin ==
    \E routable \in RaceRoutables :
       /\ last = Idle
       /\ allowOverwritingRoute \/ RouteIndex(routes, routable.method, routable.path) = 0
       /\ Len(routes) < MaxRoutes
       /\ SplitSite(nodes, NormalizePath(routable.path)).branch = "split"
       /\ nodes' = SplitAlloc(nodes, SplitSite(nodes, NormalizePath(routable.path)).cur,
                              SplitSite(nodes, NormalizePath(routable.path)).lcpLen)
       /\ last' = [op |-> "Adding", pc |-> "reset", routable |-> routable,
                   cur |-> SplitSite(nodes, NormalizePath(routable.path)).cur,
                   search |-> SplitSite(nodes, NormalizePath(routable.path)).search,
                   lcpLen |-> SplitSite(nodes, NormalizePath(routable.path)).lcpLen,
                   n |-> FreshId(nodes)]
       /\ UNCHANGED <<routes, Config, matchers>>

RaceAddReset ==
    /\ last.op = "Adding"
    /\ last.pc = "reset"
    /\ nodes' = SplitReset(nodes, last.cur, last.lcpLen)
    /\ last' = [last EXCEPT !.pc = "attach"]
    /\ UNCHANGED <<routes, Config, matchers>>

RaceAddAttach ==
    /\ last.op = "Adding"
    /\ last.pc = "attach"
    /\ nodes' = SplitAttach(nodes, last.cur, last.n)
    /\ last' = [last EXCEPT !.pc = "finish"]
    /\ UNCHANGED <<routes, Config, matchers>>

\* the rest of insert and of Add: the new route is attached and stored
RaceAddFinish ==
    /\ last.op = "Adding"
    /\ last.pc = "finish"
    /\ LET route == ToRoute(last.routable)
           path == NormalizePath(route.path)
           h == ApplyMiddleware(route.handler, route.middlewares)
           ri == ToRouteInfo(last.routable, << >>)
       IN /\ nodes' = SplitFinish(nodes, last.cur, last.search, last.lcpLen,
                                  staticKind, route.method,
                                  FullRouteMethod(route, h, path, << >>))
          /\ routes' = StoreRouteInfo(routes, ri)
          /\ last' = [op |-> "Add", routable |-> last.routable, err |-> FALSE,
                      ri |-> <<ri>>,
                      existed |-> RouteIndex(routes, route.method, route.path) # 0]
    /\ UNCHANGED <<Config, matchers>>

\* Add has returned
RaceAddReturn ==
    /\ last.op = "Add"
    /\ last' = Idle
    /\ UNCHANGED <<nodes, routes, Config, matchers>>

\* a request for a registered route comes in
RaceEnter == MatchEnterFrom(1, RegisteredRequests)

NextRace ==
    \/ RaceAddAlone
    \/ RaceAddBegin
    \/ RaceAddReset
    \/ RaceAddAttach
    \/ RaceAddFinish
    \/ RaceAddReturn
    \/ RaceEnter
    \/ MatchAdvance(1)
    \/ MatchReturn(1)
    \/ MatchJoin(1)

SpecRace == Init /\ [][NextRace]_vars

-----------------------------------------------------------------------------
(* The vocabulary of the properties: patterns as the documentation reads them *)

\* the index of the first "/" of p at or after index i, Len(p) + 1 if none
RECURSIVE SegmentEnd(_, _)
SegmentEnd(p, i) ==
    IF i > Len(p) \/ p[i] = "/" THEN i ELSE SegmentEnd(p, i + 1)

\* the parameter names a pattern declares, in order; the catch-all is "*"
RECURSIVE DeclaredFrom(_, _)
DeclaredFrom(p, i) ==
    IF i > Len(p) THEN << >>
    ELSE IF p[i] = ":"
      THEN <<SubSeq(p, i + 1, SegmentEnd(p, i) - 1)>> \o DeclaredFrom(p, SegmentEnd(p, i))
    ELSE IF p[i] = "*" THEN << <<"*">> >>
    ELSE DeclaredFrom(p, i + 1)

DeclaredNames(p) == DeclaredFrom(p, 1)

\* the pattern without its parameter names, cut after its catch-all
RECURSIVE SkeletonFrom(_, _)
SkeletonFrom(p, i) ==
    IF i > Len(p) THEN << >>
    ELSE IF p[i] = ":" THEN <<":">> \o SkeletonFrom(p, SegmentEnd(p, i))
    ELSE IF p[i] = "*" THEN <<"*">>
    ELSE <<p[i]>> \o SkeletonFrom(p, i + 1)

Skeleton(p) == SkeletonFrom(p, 1)

\* q is another pattern that takes the place of p when p's own string is
\* looked up: it differs from p in parameter names only, or it ends in a
\* parameter where p ends in its catch-all
Shadows(q, p) ==
    LET s == Skeleton(p)
        t == Skeleton(q)
    IN /\ q # p
       /\ \/ t = s
          \/ /\ s # << >>
             /\ s[Len(s)] = "*"
             /\ t = Take(s, Len(s) - 1) \o <<":">>

NamesOf(params) == [i \in 1..Len(params) |-> params[i].name]
ValuesOf(params) == [i \in 1..Len(params) |-> params[i].value]

\* the request for the literal string of a pattern
OwnRequest(method, pattern) == [method |-> method, path |-> pattern, rawPath |-> << >>]

-----------------------------------------------------------------------------
(* C1 *)

\* C1 as the documentation states it: on a router that only saw Add, the
\* request whose path is the string of a registered (method, pattern) is Found
\* with that pattern as RoutePath and the pattern's declared names as the
\* names of the filled parameters.
C1_OwnStringIsRetrieved ==
    \A i \in 1..Len(routes) :
       (last.op = "Match" /\ last.req = OwnRequest(routes[i].method, routes[i].path))
       => /\ last.result.type = RouteMatchFound
          /\ last.result.routePath = routes[i].path
          /\ NamesOf(last.params) = DeclaredNames(routes[i].path)

\* C1, amended: for a registered pattern that starts with "/", the request for
\* its own string is Found; RoutePath is the pattern and the parameter names
\* are its declared names unless another registered pattern of the same
\* method shadows it (same shape under other names, or a parameter where the
\* pattern has its catch-all).
C1_OwnStringIsFound ==
    \A i \in 1..Len(routes) :
       (/\ last.op = "Match"
        /\ last.req = OwnRequest(routes[i].method, routes[i].path)
        /\ routes[i].path # << >>
        /\ routes[i].path[1] = "/")
       => /\ last.result.type = RouteMatchFound
          /\ (\A j \in 1..Len(routes) :
                  ~(routes[j].method = routes[i].method
                    /\ Shadows(routes[j].path, routes[i].path)))
             => /\ last.result.routePath = routes[i].path
                /\ NamesOf(last.params) = DeclaredNames(routes[i].path)

\* the two-parameter pattern is retrieved by its own string among other routes
C1_Witness ==
    /\ last.op = "Match"
    /\ last.req = OwnRequest(GET, P_axy)
    /\ RouteIndex(routes, GET, P_axy) # 0
    /\ RouteIndex(routes, GET, P_ax) # 0
    /\ last.result.type = RouteMatchFound
    /\ last.result.routePath = P_axy
    /\ NamesOf(last.params) = << <<"x">>, <<"y">> >>

-----------------------------------------------------------------------------
(* C2 *)

\* path[i..] is obtained from pattern[k..] by putting a non-empty value without
\* "/" for each parameter and any remainder for the catch-all
RECURSIVE InstantiatesFrom(_, _, _, _)
InstantiatesFrom(path, i, pattern, k) ==
    IF k > Len(pattern) THEN i > Len(path)
    ELSE IF pattern[k] = "*" THEN TRUE
    ELSE IF pattern[k] = ":"
      THEN /\ SegmentEnd(path, i) > i
           /\ InstantiatesFrom(path, SegmentEnd(path, i), pattern, SegmentEnd(pattern, k))
    ELSE /\ i <= Len(path)
         /\ path[i] = pattern[k]
         /\ InstantiatesFrom(path, i + 1, pattern, k + 1)

Instantiates(path, pattern) == InstantiatesFrom(path, 1, pattern, 1)

\* the registry entries of the method whose pattern the path instantiates
Candidates(rs, method, path) ==
    {i \in 1..Len(rs) : rs[i].method = method /\ Instantiates(path, rs[i].path)}

\* C2 as the documentation states it, read generously: a request without
\* escapes whose path instantiates a registered pattern of its method is
\* Found with the pattern of some registered route of that method as
\* RoutePath; it is never NotFound nor MethodNotAllowed.
C2_InstanceIsFound ==
    (/\ last.op = "Match"
     /\ last.req.rawPath = << >>
     /\ Candidates(routes, last.req.method, last.req.path) # {})
    => /\ last.result.type = RouteMatchFound
       /\ RouteIndex(routes, last.req.method, last.result.routePath) # 0

-----------------------------------------------------------------------------
(* C3 *)

Rank(c) == IF c = ":" THEN 2 ELSE IF c = "*" THEN 3 ELSE 1

\* the first index at which s and t differ, 0 if one is a prefix of the other
RECURSIVE FirstDifference(_, _, _)
FirstDifference(s, t, k) ==
    IF k > Len(s) \/ k > Len(t) THEN 0
    ELSE IF s[k] # t[k] THEN k
    ELSE FirstDifference(s, t, k + 1)

\* at the first place where the patterns p and q part, p continues with the
\* node kind of higher priority: Static over Param over CatchAll
Preferred(p, q) ==
    LET s == Skeleton(p)
        t == Skeleton(q)
        k == FirstDifference(s, t, 1)
    IN k # 0 /\ Rank(s[k]) < Rank(t[k])

\* C3 as the documentation states it: when the path of a request without
\* escapes instantiates more than one registered pattern of its method, Match
\* is Found with the pattern that is preferred to each of the others at the
\* place where they part.
C3_PriorityDecides ==
    LET cands == Candidates(routes, last.req.method, last.req.path)
    IN (/\ last.op = "Match"
        /\ last.req.rawPath = << >>
        /\ Cardinality(cands) >= 2)
       => \E i \in cands :
             /\ \A j \in cands \ {i} : Preferred(routes[i].path, routes[j].path)
             /\ last.result.type = RouteMatchFound
             /\ last.result.routePath = routes[i].path

-----------------------------------------------------------------------------
(* C4 *)

\* C4: Match is NotFound (empty RoutePath, the stock 404 handler, the
\* not-found RouteInfo, the vector cut to length 0) exactly when its descent
\* reached no handler node with the path consumed; when it reached such nodes
\* and none has an entry for the method, it is MethodNotAllowed with the
\* stock 405 handler and the originalPath of the first node reached.
C4_NotFoundOrNotAllowed ==
    last.op = "Match" =>
       LET res == last.result
           reachedHandlers == SelectSeq(last.reached, LAMBDA n : nodes[n].isHandler)
           withMethod == {k \in 1..Len(reachedHandlers) :
                             last.req.method \in DOMAIN nodes[reachedHandlers[k]].methods}
       IN /\ ~last.panic
          /\ (res.type = RouteMatchNotFound) <=> (reachedHandlers = << >>)
          /\ res.type = RouteMatchNotFound
             => /\ res.routePath = << >>
                /\ res.handler = notFoundHandler
                /\ res.routeInfo = notFoundRouteInfo
                /\ last.params = << >>
          /\ (reachedHandlers # << >> /\ withMethod = {})
             => /\ res.type = RouteMatchMethodNotAllowed
                /\ res.handler = methodNotAllowedHandler
                /\ res.routePath = nodes[reachedHandlers[1]].originalPath

\* MethodNotAllowed after two handler nodes were reached without the method
C4_Witness ==
    /\ last.op = "Match"
    /\ last.result.type = RouteMatchMethodNotAllowed
    /\ Len(last.reached) = 2
    /\ last.reached[1] # last.reached[2]
    /\ last.result.routePath = nodes[last.reached[1]].originalPath
    /\ last.result.routePath # nodes[last.reached[2]].originalPath

-----------------------------------------------------------------------------
(* C5 *)

\* path[i..] reads as pattern[k..] when the parameters from the n-th on
\* consumed substrings that, decoded where `decode` says so, are the values
\* vals[n..]; the catch-all consumes the rest of the path
RECURSIVE ReadsAs(_, _, _, _, _, _, _)
ReadsAs(path, i, pattern, k, vals, n, decode) ==
    LET given(a, b) == IF decode THEN PathUnescape(SubSeq(path, a, b)).value
                       ELSE SubSeq(path, a, b)
    IN IF k > Len(pattern) THEN i > Len(path) /\ n > Len(vals)
       ELSE IF pattern[k] = "*"
         THEN n = Len(vals) /\ given(i, Len(path)) = vals[n]
       ELSE IF pattern[k] = ":"
         THEN /\ n <= Len(vals)
              /\ \E e \in i..(Len(path) + 1) :
                    /\ given(i, e - 1) = vals[n]
                    /\ ReadsAs(path, e, pattern, SegmentEnd(pattern, k), vals, n + 1, decode)
       ELSE /\ i <= Len(path)
            /\ path[i] = pattern[k]
            /\ ReadsAs(path, i + 1, pattern, k + 1, vals, n, decode)

\* C5 as the documentation states it: after a Found the vector has one entry
\* per declared parameter of the matched route, with the declared names in
\* order, and the values are exactly the substrings of the path that the
\* parameters consumed.
C5_ValuesAreSubstrings ==
    (last.op = "Match" /\ last.result.type = RouteMatchFound)
    => LET declared == DeclaredNames(last.result.routePath)
       IN /\ Len(last.params) = Len(declared)
          /\ NamesOf(last.params) = declared
          /\ ReadsAs(MatchPath(useEscapedPathForRouting, last.req), 1,
                     last.result.routePath, 1, ValuesOf(last.params), 1, FALSE)

\* C5, amended: the values are the consumed substrings, percent-decoded when
\* UnescapePathParamValues is set and the matched node is a Param or CatchAll
\* node (a substring that does not decode is left as it is).
C5_ValuesAreDecodedSubstrings ==
    (last.op = "Match" /\ last.result.type = RouteMatchFound)
    => LET declared == DeclaredNames(last.result.routePath)
       IN /\ Len(last.params) = Len(declared)
          /\ NamesOf(last.params) = declared
          /\ ReadsAs(MatchPath(useEscapedPathForRouting, last.req), 1,
                     last.result.routePath, 1, ValuesOf(last.params), 1,
                     unescapePathParamValues /\ nodes[last.node].kind # staticKind)

\* a Found at the catch-all after the Param branch of /a/:x/:y was abandoned,
\* with the consumed "%31" delivered decoded
C5_Witness ==
    /\ last.op = "Match"
    /\ last.result.type = RouteMatchFound
    /\ unescapePathParamValues
    /\ RouteIndex(routes, GET, P_axy) # 0
    /\ RouteIndex(routes, GET, P_ax) = 0
    /\ MatchPath(useEscapedPathForRouting, last.req) = <<"/", "a", "/", "%", "3", "1">>
    /\ last.result.routePath = P_aS
    /\ last.params = <<[name |-> <<"*">>, value |-> <<"1">>]>>

-----------------------------------------------------------------------------
(* C6 *)

\* GET /a/:x is the only route registered
OnlyParamRoute ==
    /\ Len(routes) = 1
    /\ routes[1].method = GET
    /\ routes[1].path = P_ax

\* the path of the request goes on with further segments after the segment
\* that stands for :x in /a/:x
HasFurtherSegments(path) ==
    /\ Len(path) > 3
    /\ Take(path, 3) = <<"/", "a", "/">>
    /\ path[4] # "/"
    /\ \E k \in 5..Len(path) : path[k] = "/"

\* the last call was Match for GET on such a path, without escapes
MatchedBeyondParam ==
    /\ last.op = "Match"
    /\ last.req.method = GET
    /\ last.req.rawPath = << >>
    /\ HasFurtherSegments(last.req.path)

\* C6 as the documentation states it: with only GET /a/:x registered, a GET
\* request whose path has further segments after the parameter's segment is
\* NotFound.
C6_FurtherSegmentsNotFound ==
    (OnlyParamRoute /\ MatchedBeyondParam) => last.result.type = RouteMatchNotFound

\* no route of the tree goes on below a parameter
ParamNodesAreChildless ==
    \A n \in DOMAIN nodes :
       nodes[n].kind = paramKind
       => /\ nodes[n].staticChildren = << >>
          /\ nodes[n].paramChild = Nil
          /\ nodes[n].anyChild = Nil

\* C6, amended: with only GET /a/:x registered and nothing below its
\* parameter node, that node takes the whole rest of the path; the request is
\* Found as /a/:x with x bound to everything after /a/, slashes included.
C6_LeafParamTakesTheRest ==
    (OnlyParamRoute /\ ParamNodesAreChildless /\ MatchedBeyondParam)
    => /\ last.result.type = RouteMatchFound
       /\ last.result.routePath = P_ax
       /\ last.params = <<[name |-> <<"x">>, value |-> Drop(last.req.path, 3)]>>

\* GET /a/1/2 with only GET /a/:x registered
C6_Witness ==
    /\ OnlyParamRoute
    /\ ParamNodesAreChildless
    /\ MatchedBeyondParam
    /\ last.req.path = <<"/", "a", "/", "1", "/", "2">>
    /\ last.result.type = RouteMatchFound

-----------------------------------------------------------------------------
(* C7 *)

\* C7 as the documentation states it: Remove of a (method, pattern) that the
\* registry holds finds its node and returns success.
C7_RegisteredIsRemovable ==
    (last.op = "Remove" /\ last.registered) => (~last.err /\ ~last.panic)

-----------------------------------------------------------------------------
(* C8 *)

\* what Match answers on the router as it is now
Answer(req) ==
    MatchOp(nodes, unescapePathParamValues, useEscapedPathForRouting, req,
            CallerParams).result

\* C8 as the documentation states it: after Remove of a (method, pattern)
\* that was added before, no request of that method is Found as the removed
\* pattern, the registry has no entry for it, and if no route is left every
\* request is NotFound.
C8_RemovedIsGone ==
    (last.op = "Remove" /\ last.registered)
    => /\ RouteIndex(routes, last.method, last.path) = 0
       /\ \A req \in Requests :
             req.method = last.method
             => ~(/\ Answer(req).type = RouteMatchFound
                  /\ Answer(req).routePath = last.path)
       /\ routes = << >>
          => \A req \in Requests : Answer(req).type = RouteMatchNotFound

-----------------------------------------------------------------------------
(* C9 *)

\* the conditions under which Add is documented to fail, before the call
AddMustFail(routable) ==
    \/ routable.handler = NoHandler
    \/ /\ ~allowOverwritingRoute
       /\ \E i \in 1..Len(routes) :
             routes[i].method = routable.method /\ routes[i].path = routable.path

\* C9: a call of Add on a route without handler, or on a (method, pattern) the
\* registry holds while AllowOverwritingRoute is false, returns an error and
\* changes neither the tree nor the registry; every other call succeeds and
\* returns the RouteInfo of the route, which the registry then holds.
C9_AddFailsOrStores ==
    [][last'.op = "Add"
       => IF AddMustFail(last'.routable)
            THEN /\ last'.err
                 /\ last'.ri = << >>
                 /\ nodes' = nodes
                 /\ routes' = routes
            ELSE /\ ~last'.err
                 /\ Len(last'.ri) = 1
                 /\ last'.ri[1].method = last'.routable.method
                 /\ last'.ri[1].path = last'.routable.path
                 /\ \E k \in 1..Len(routes') : routes'[k] = last'.ri[1]]_vars

\* a duplicate was refused on a router that holds two routes
C9_Witness ==
    /\ last.op = "Add"
    /\ last.err
    /\ last.routable.handler # NoHandler
    /\ last.existed
    /\ ~allowOverwritingRoute
    /\ Len(routes) = 2

-----------------------------------------------------------------------------
(* C10 *)

\* C10: with AllowOverwritingRoute set, Add of a (method, pattern) the
\* registry holds puts the new RouteInfo at the entry's position and leaves
\* the other entries and the length alone, Add of a new one appends it, and
\* afterwards every request of that method that is Found as this pattern gets
\* the handler just registered.
C10_OverwriteInPlace ==
    [][(last'.op = "Add" /\ ~last'.err /\ allowOverwritingRoute)
       => LET routable == last'.routable
              i == RouteIndex(routes, routable.method, routable.path)
          IN /\ IF i # 0
                  THEN routes' = [routes EXCEPT ![i] = last'.ri[1]]
                  ELSE routes' = Append(routes, last'.ri[1])
             /\ \A req \in Requests :
                   LET a == MatchOp(nodes', unescapePathParamValues',
                                    useEscapedPathForRouting', req, CallerParams).result
                   IN (/\ req.method = routable.method
                       /\ a.type = RouteMatchFound
                       /\ a.routePath = NormalizePath(routable.path))
                      => a.handler = routable.handler]_vars

\* GET /a/:x, first in a registry of two, was registered again with the other
\* handler, which GET /a/1 now gets
C10_Witness ==
    /\ last.op = "Add"
    /\ ~last.err
    /\ last.existed
    /\ allowOverwritingRoute
    /\ last.routable = Routable(GET, P_ax, "h2")
    /\ Len(routes) = 2
    /\ routes[1].path = P_ax
    /\ Answer([method |-> GET, path |-> <<"/", "a", "/", "1">>, rawPath |-> << >>]).handler = "h2"

-----------------------------------------------------------------------------
(* C11 *)

\* the nodes with a method entry whose originalPath is the normalised pattern
HandlerNodesFor(path) ==
    {n \in DOMAIN nodes :
        nodes[n].methods # NewRouteMethods /\ nodes[n].originalPath = NormalizePath(path)}

\* the conditions under which Remove is documented to fail, before the call
RemoveMustFail(method, path) ==
    \A n \in HandlerNodesFor(path) : method \notin DOMAIN nodes[n].methods

\* C11: a call of Remove on a router without routes, for a pattern no handler
\* node stands for, or for a method the pattern's node has no entry for,
\* returns an error; and every Remove that returns an error leaves the tree
\* and the registry as they were.
C11_RemoveFailsUnchanged ==
    [][last'.op = "Remove"
       => /\ RemoveMustFail(last'.method, last'.path) => last'.err
          /\ last'.err => (~last'.panic /\ nodes' = nodes /\ routes' = routes)]_vars

\* Remove was refused for a method the node of a registered pattern lacks
C11_Witness ==
    /\ last.op = "Remove"
    /\ last.err
    /\ last.method = POST
    /\ last.path = P_ax
    /\ RouteIndex(routes, GET, P_ax) # 0
    /\ HandlerNodesFor(P_ax) # {}

-----------------------------------------------------------------------------
(* C12 *)

HasNoChildren(n) ==
    /\ nodes[n].staticChildren = << >>
    /\ nodes[n].paramChild = Nil
    /\ nodes[n].anyChild = Nil

\* C12 as the documentation states it: once an Add or Remove has completed,
\* on every node reachable from the root isLeaf is true exactly when the node
\* has no child of any kind and isHandler is true exactly when its method
\* table has an entry.
C12_FlagsAgree ==
    (last.op \in {"Add", "Remove"})
    => \A n \in DOMAIN nodes :
          /\ nodes[n].isLeaf <=> HasNoChildren(n)
          /\ nodes[n].isHandler <=> (nodes[n].methods # NewRouteMethods)

-----------------------------------------------------------------------------
(* C13 *)

\* the path the documentation has Match run on: the decoded path, and the raw
\* path only under UseEscapedPathForMatching and when the request carries one
DocumentedPath(req) ==
    IF useEscapedPathForRouting /\ req.rawPath # << >> THEN req.rawPath ELSE req.path

\* the request whose only path is the documented one
OnDocumentedPath(req) ==
    [method |-> req.method, path |-> DocumentedPath(req), rawPath |-> << >>]

\* C13 as the documentation states it: every Match answers, in result and in
\* parameter values, as a match against the decoded path when
\* UseEscapedPathForMatching is false, and against the raw path, where the
\* request carries one, when it is true.
C13_DecodedPathByDefault ==
    (last.op = "Match")
    => LET r == MatchOp(nodes, unescapePathParamValues, useEscapedPathForRouting,
                        OnDocumentedPath(last.req), CallerParams)
       IN last.result = r.result /\ last.params = r.params

-----------------------------------------------------------------------------
(* C14 *)

\* C14: no step of a goroutine inside Match changes the tree or the registry,
\* and a goroutine whose Match returns, whatever the other goroutines did in
\* between, gets the result and the parameters that Match gives for its
\* request when it runs alone.
C14_ConcurrentMatchesAreAlone ==
    [][\A g \in Goroutines :
          (matchers'[g] # matchers[g])
          => /\ nodes' = nodes /\ routes' = routes
             /\ (matchers'[g].pc = "returned")
                => LET alone == MatchOp(nodes, unescapePathParamValues,
                                        useEscapedPathForRouting, matchers'[g].req,
                                        CallerParams)
                   IN /\ matchers'[g].out.result = alone.result
                      /\ matchers'[g].out.params = alone.params]_vars

\* a Match that found a route returns while another goroutine is in the
\* middle of a Match of a different request
C14_Witness ==
    \E g, h \in Goroutines :
       /\ g # h
       /\ matchers[g].pc = "returned"
       /\ matchers[g].out.result.type = RouteMatchFound
       /\ matchers[h].pc = "running"
       /\ matchers[h].req # matchers[g].req
       /\ matchers[h].m.pc \notin {"loop", "done"}

-----------------------------------------------------------------------------
(* C15 *)

\* one order of all routables, to which every other order is compared
ListOrder ==
    <<Routable(GET, P_axy, "h2"), Routable(POST, P_aS, "h2"), Routable(GET, P_ay, "h2"),
      Routable(GET, P_ax, "h1"), Routable(GET, P_ac, "h1")>>

IsRegistered(r) == RouteIndex(routes, r.method, r.path) # 0

\* the registered routables in the order of the list
RegisteredInListOrder == SelectSeq(ListOrder, IsRegistered)

\* what Match delivers for a request on the tree ns
Outcome(ns, req) ==
    LET r == MatchOp(ns, unescapePathParamValues, useEscapedPathForRouting, req,
                     CallerParams)
    IN <<r.result, r.params, r.panic>>

\* The router, whatever the order its routes were registered in, answers
\* every request as the router that was given the same routes in the order
\* of the list; every order of every set of up to MaxRoutes routes is a state.
SameOutcomesInAnyOrder ==
    LET other == AddAll(RegisteredInListOrder)
    IN \A req \in StepRequests : Outcome(other, req) = Outcome(nodes, req)

\* C15 as the documentation states it: the routes of a router (pairwise
\* distinct in method and pattern), registered on a fresh router in any other
\* order, give a router with the same Match outcome for every request.
C15_OrderIsIrrelevant == SameOutcomesInAnyOrder

\* two routes meet on one node of the tree: their normalised patterns differ
\* in parameter names only, or are equal and the methods are too
Overlap(a, b) ==
    /\ Skeleton(NormalizePath(a.path)) = Skeleton(NormalizePath(b.path))
    /\ NormalizePath(a.path) # NormalizePath(b.path) \/ a.method = b.method

NoOverlap ==
    \A i, j \in 1..Len(routes) : i # j => ~Overlap(routes[i], routes[j])

\* C15, amended: routes no two of which meet on one node, registered on a
\* fresh router in any order, give routers with the same Match outcome for
\* every request.
C15_OrderIsIrrelevantWithoutOverlap == NoOverlap => SameOutcomesInAnyOrder

\* three routes without overlap are registered, one of which split the node
\* of another in this order
C15_Witness ==
    /\ Len(routes) = 3
    /\ NoOverlap
    /\ routes[1].path = P_ac
    /\ routes[2].path = P_axy
    /\ routes[3].path = P_aS

-----------------------------------------------------------------------------
(* C16 *)

\* the routable with its pattern written in normalised form
Normalised(routable) == [routable EXCEPT !.path = NormalizePath(routable.path)]

\* the registry holds the route of this method under either form of the pattern
RegisteredAsEither(reg, method, path) ==
    \E i \in 1..Len(reg) :
       reg[i].method = method /\ NormalizePath(reg[i].path) = NormalizePath(path)

\* C16 as the documentation states it: Add of a pattern fails or succeeds as
\* Add of its normalised form does and leaves the same tree; with overwriting
\* disabled it fails when the route is registered under either form; and a
\* Remove that succeeds leaves the route registered under neither form.
C16_NormalisedFormIsSameRoute ==
    [][/\ (last'.op = "Add")
          => LET r == AddOp(nodes, routes, allowOverwritingRoute,
                            Normalised(last'.routable))
             IN /\ last'.err = r.err
                /\ nodes' = Renumber(r.nodes)
                /\ (/\ ~allowOverwritingRoute
                    /\ RegisteredAsEither(routes, last'.routable.method,
                                          last'.routable.path))
                   => last'.err
       /\ (last'.op = "Remove" /\ ~last'.err)
          => ~RegisteredAsEither(routes', last'.method, last'.path)]_vars

-----------------------------------------------------------------------------
(* C17 *)

\* C17 as the documentation states it: a Remove that succeeds takes out of
\* the registry one entry, an entry of the removed method and pattern (the
\* pattern in either of its forms), and leaves the other entries as they
\* were, in their order.
C17_RemoveDeletesItsEntry ==
    [][(last'.op = "Remove" /\ ~last'.err /\ ~last'.panic)
       => \E i \in 1..Len(routes) :
             /\ routes[i].method = last'.method
             /\ NormalizePath(routes[i].path) = NormalizePath(last'.path)
             /\ routes' = RemoveAt(routes, i)]_vars

-----------------------------------------------------------------------------
(* C18 *)

\* the remaining search up to, not including, its first "/"
UpToSlash(search) == Take(search, SegmentEnd(search, 1) - 1)

\* goroutine g, at the Param label in m, moves into the Param child
ParamDescent(g) ==
    /\ matchers[g].pc = "running"
    /\ matchers[g].m.pc = "param"
    /\ matchers'[g].pc = "running"
    /\ nodes[matchers[g].m.cur].paramChild # Nil
    /\ matchers'[g].m.cur = nodes[matchers[g].m.cur].paramChild

\* C18: Match moves into a Param child only with a non-empty remaining
\* search, and binds as the parameter's value the remaining search up to its
\* next "/" when the Param node has a child, and the whole remaining search
\* when it has none.
C18_ParamBindsSegmentOrRest ==
    [][\A g \in Goroutines :
          ParamDescent(g)
          => LET m == matchers[g].m
                 child == nodes[m.cur].paramChild
                 bound == matchers'[g].m.params[m.paramIndex + 1].value
             IN /\ m.search # << >>
                /\ bound = IF HasNoChildren(child) THEN m.search ELSE UpToSlash(m.search)
                /\ matchers'[g].m.search = Drop(m.search, Len(bound))]_vars

\* a Param node with a child has taken "1" of "1/2", a second one without
\* children is about to take the rest
C18_Witness ==
    /\ matchers[1].pc = "running"
    /\ matchers[1].m.pc = "loop"
    /\ nodes[matchers[1].m.cur].kind = paramKind
    /\ ~HasNoChildren(matchers[1].m.cur)
    /\ matchers[1].m.paramIndex = 1
    /\ matchers[1].m.params[1].value = <<"1">>
    /\ matchers[1].m.search = <<"/", "2">>

-----------------------------------------------------------------------------
(* C19 *)

\* goroutine g is at the Any label of a node that has a catch-all child
AtCatchAll(g) ==
    /\ matchers[g].pc = "running"
    /\ matchers[g].m.pc = "any"
    /\ nodes[matchers[g].m.cur].anyChild # Nil

\* C19: when Match takes the catch-all child, the child's paramsCount - 1 is
\* the current parameter index; when the Match ends on that child, the value
\* at that index is the whole rest of the request path from the point reached
\* (slashes included, possibly empty); and in a Found result on a catch-all
\* node the name of that parameter is "*".
C19_CatchAllBindsTheRest ==
    [][\A g \in Goroutines :
          /\ AtCatchAll(g)
             => LET m == matchers[g].m
                    child == nodes[m.cur].anyChild
                    path == MatchPath(useEscapedPathForRouting, matchers[g].req)
                IN /\ nodes[child].paramsCount - 1 = m.paramIndex
                   /\ (matchers'[g].pc = "running" /\ matchers'[g].m.cur = child)
                      => /\ matchers'[g].m.params[m.paramIndex + 1].value
                            = Drop(path, m.searchIndex)
                         /\ matchers'[g].m.search = << >>
          /\ (/\ matchers[g].pc = "running"
              /\ matchers'[g].pc = "returned"
              /\ matchers'[g].out.result.type = RouteMatchFound
              /\ nodes[matchers'[g].out.node].kind = anyKind)
             => LET ps == matchers'[g].out.params
                IN /\ Len(ps) = nodes[matchers'[g].out.node].paramsCount
                   /\ ps[Len(ps)].name = <<"*">>]_vars

\* a Match has ended on a catch-all node that took "1/2", slash included
C19_Witness ==
    /\ matchers[1].pc = "returned"
    /\ matchers[1].out.result.type = RouteMatchFound
    /\ matchers[1].out.node # Nil
    /\ nodes[matchers[1].out.node].kind = anyKind
    /\ ValuesOf(matchers[1].out.params) = << <<"1", "/", "2">> >>

-----------------------------------------------------------------------------
(* C20 *)

\* the number of Param and catch-all nodes on the chain from the root to n
RECURSIVE ParamsOnChain(_)
ParamsOnChain(n) ==
    IF n = Nil THEN 0
    ELSE ParamsOnChain(nodes[n].parent) + (IF nodes[n].kind = staticKind THEN 0 ELSE 1)

\* the bytes of the request path taken by the nodes from the root to n: a
\* static node takes its prefix, a Param or catch-all node the value bound
\* to it in the vector
RECURSIVE ConsumedOnChain(_, _)
ConsumedOnChain(n, params) ==
    IF n = Nil THEN 0
    ELSE ConsumedOnChain(nodes[n].parent, params)
         + (IF nodes[n].kind = staticKind THEN Len(nodes[n].prefix)
            ELSE Len(params[ParamsOnChain(n)].value))

\* the last node that has taken its part of the path when control is at the
\* label m.pc: at the head of the loop a static node has yet to take its prefix
LastMatched(m) ==
    IF m.pc = "loop" /\ nodes[m.cur].kind = staticKind THEN nodes[m.cur].parent ELSE m.cur

\* C20: whenever a Match is at the head of the loop, at the Param label or at
\* the Any label, search is path[searchIndex:], searchIndex is the number of
\* bytes taken by the nodes from the root to the current node, and paramIndex
\* is the number of Param and catch-all nodes among them; so a backtrack
\* gives both the values they had when the node it leaves was entered.
C20_SearchStateFollowsChain ==
    \A g \in Goroutines :
       (matchers[g].pc = "running" /\ matchers[g].m.pc \in {"loop", "param", "any"})
       => LET m == matchers[g].m
              path == MatchPath(useEscapedPathForRouting, matchers[g].req)
          IN /\ m.search = Drop(path, m.searchIndex)
             /\ m.searchIndex = ConsumedOnChain(LastMatched(m), m.params)
             /\ m.paramIndex = ParamsOnChain(LastMatched(m))

\* control is back at the Any label of the static node under a first Param
\* node, after the Match went into the second Param node and left it again
C20_Witness ==
    /\ matchers[1].pc = "running"
    /\ matchers[1].m.pc = "any"
    /\ nodes[matchers[1].m.cur].kind = staticKind
    /\ nodes[matchers[1].m.cur].paramChild # Nil
    /\ matchers[1].m.paramIndex = 1
    /\ matchers[1].m.params[2].value = << >>
    /\ matchers[1].m.search = <<"c">>
    /\ matchers[1].m.best # Nil

-----------------------------------------------------------------------------
(* C21 *)

\* the tree has a chain that starts with node n, takes the whole of s (a
\* static node its prefix, a Param node the non-empty segment up to the next
\* "/", a catch-all node all of it) and ends at a node with an entry for the
\* method
RECURSIVE ChainFrom(_, _, _)
ChainFrom(n, s, method) ==
    LET node == nodes[n]
        taken == CASE node.kind = staticKind ->
                        IF Len(node.prefix) <= Len(s) /\ Take(s, Len(node.prefix)) = node.prefix
                          THEN Len(node.prefix) ELSE -1
                   [] node.kind = paramKind ->
                        IF SegmentEnd(s, 1) > 1 THEN SegmentEnd(s, 1) - 1 ELSE -1
                   [] node.kind = anyKind -> Len(s)
        rest == Drop(s, taken)
    IN /\ taken >= 0
       /\ \/ rest = << >> /\ method \in DOMAIN node.methods
          \/ \E i \in 1..Len(node.staticChildren) :
                ChainFrom(node.staticChildren[i], rest, method)
          \/ node.paramChild # Nil /\ ChainFrom(node.paramChild, rest, method)
          \/ node.anyChild # Nil /\ ChainFrom(node.anyChild, rest, method)

\* C21 as the documentation states it: Match returns NotFound or
\* MethodNotAllowed only if no chain of the tree takes the whole request path
\* and ends at a node with an entry for the request method.
C21_SearchIsExhaustive ==
    (last.op = "Match" /\ last.result.type # RouteMatchFound)
    => ~ChainFrom(Root, MatchPath(useEscapedPathForRouting, last.req), last.req.method)

-----------------------------------------------------------------------------
(* C22 *)

\* C22 as the documentation states it: a route of a method outside the
\* eleven with a slot of their own is Found by a request of that method whose
\* path instantiates its pattern; and Remove of such a registered route ends
\* normally without error, after which no node of that pattern has an entry
\* for the method, the registry has no entry for the route, and isHandler of
\* every node tells whether its method table has an entry.
C22_OtherMethodsBehaveAlike ==
    /\ (/\ last.op = "Match"
        /\ last.req.method \notin DirectMethods
        /\ Candidates(routes, last.req.method, last.req.path) # {})
       => last.result.type = RouteMatchFound
    /\ (/\ last.op = "Remove"
        /\ last.method \notin DirectMethods
        /\ last.registered)
       => /\ ~last.panic
          /\ ~last.err
          /\ RouteIndex(routes, last.method, last.path) = 0
          /\ RemoveMustFail(last.method, last.path)
          /\ \A n \in DOMAIN nodes :
                nodes[n].isHandler <=> (nodes[n].methods # NewRouteMethods)

-----------------------------------------------------------------------------
(* C23 *)

\* the children of node n of the tree ns, of every kind
KidsOf(ns, n) ==
    {ns[n].staticChildren[i] : i \in 1..Len(ns[n].staticChildren)}
    \cup ({ns[n].paramChild, ns[n].anyChild} \ {Nil})

\* the prefixes on the chain from the root to n, concatenated
RECURSIVE ChainOf(_, _)
ChainOf(ns, n) ==
    IF n = Nil THEN << >> ELSE ChainOf(ns, ns[n].parent) \o ns[n].prefix

\* a node is known by its place in the tree, whatever its address
PlaceOf(ns, n) == <<ChainOf(ns, n), ns[n].kind>>
Places(ns) == {PlaceOf(ns, n) : n \in DOMAIN ns}

\* node n being detached, the nodes that go with it: n, and each ancestor
\* below the root that is left with no handler and no child
RECURSIVE DetachedWith(_, _)
DetachedWith(ns, n) ==
    LET p == ns[n].parent
    IN IF p = Nil THEN {}
       ELSE {n} \cup (IF ns[p].methods = NewRouteMethods /\ KidsOf(ns, p) = {n}
                        THEN DetachedWith(ns, p) ELSE {})

\* the nodes the documentation has a Remove of (method, path) detach
MustDetach(ns, method, path) ==
    LET target == LocateFrom(ns, Root, 0, NormalizePath(path))
    IN IF /\ target # Nil
          /\ DOMAIN ns[target].methods \subseteq {method}
          /\ KidsOf(ns, target) = {}
         THEN DetachedWith(ns, target) ELSE {}

\* C23 as the documentation states it: a Remove that succeeds detaches the
\* target node exactly when it is left with no handler and has no child, with
\* it each ancestor that this leaves with no handler and no child, up to the
\* first that has one; every other node, the root among them, stays in place.
C23_PrunesExactlyTheEmptied ==
    [][(last'.op = "Remove" /\ ~last'.err /\ ~last'.panic)
       => /\ Places(nodes')
             = {PlaceOf(nodes, n) :
                   n \in DOMAIN nodes \ MustDetach(nodes, last'.method, last'.path)}
          /\ nodes'[Root].parent = Nil
          /\ nodes'[Root].prefix = nodes[Root].prefix]_vars

-----------------------------------------------------------------------------
(* C24 *)

\* every request the specifications send
AllRequests ==
    Requests \cup WideRequests \cup StepRequests \cup OtherRequests \cup PruneRequests

\* the request was resolved, in the tree ns, to a route other than (method, path)
FoundAnother(ns, req, method, path) ==
    LET before == Outcome(ns, req)[1]
    IN /\ before.type = RouteMatchFound
       /\ <<req.method, before.routePath>> # <<method, NormalizePath(path)>>

\* C24: a Remove that succeeds leaves every other route as it was: a request
\* that was Found for another (method, pattern) before is Found after with the
\* same RoutePath, handler and parameter values, and no surviving node changes
\* its place or prefix.
C24_RemoveLeavesOthersAlone ==
    [][(last'.op = "Remove" /\ ~last'.err /\ ~last'.panic)
       => /\ \A req \in AllRequests :
                FoundAnother(nodes, req, last'.method, last'.path)
                => Outcome(nodes', req) = Outcome(nodes, req)
          /\ Places(nodes') \subseteq Places(nodes)]_vars

-----------------------------------------------------------------------------
(* C25 *)

\* C25: in every state, the prefixes on the chain from the root to a handler
\* node spell the node's originalPath with each parameter reduced to ':' and
\* everything after the first '*' dropped, and the parent pointer of every
\* child is the node that holds it.
C25_ChainsSpellThePatterns ==
    /\ \A n \in DOMAIN nodes :
          nodes[n].isHandler
          => ChainOf(nodes, n) = Skeleton(nodes[n].originalPath)
    /\ \A n \in DOMAIN nodes : \A k \in KidsOf(nodes, n) : nodes[k].parent = n
    /\ nodes[Root].parent = Nil

\* an Add has split a node that had children: a handler node hangs two levels
\* below a node without handler that holds two static children
C25_Witness ==
    /\ last.op = "Add" /\ ~last.err
    /\ \E n \in DOMAIN nodes :
          /\ nodes[n].isHandler
          /\ nodes[n].originalPath # last.routable.path
          /\ nodes[n].parent # Nil
          /\ nodes[nodes[n].parent].parent # Nil
          /\ LET top == nodes[nodes[nodes[n].parent].parent]
             IN ~top.isHandler /\ Len(top.staticChildren) = 2

-----------------------------------------------------------------------------
(* C26 *)

\* the (node, alternative kind) pairs a matcher in state m has ahead of it, in
\* the order it takes them; at most fuel of them
RECURSIVE VisitsFrom(_, _, _, _, _)
VisitsFrom(ns, path, method, m, fuel) ==
    IF m.pc = "done" \/ fuel = 0 THEN << >>
    ELSE <<<<m.cur, m.pc>>>> \o VisitsFrom(ns, path, method,
                                          MatchStep(ns, path, method, m), fuel - 1)

\* a node has three alternatives, so a loop that takes one more pair than
\* three per node has taken some pair twice
VisitsAhead(g) ==
    VisitsFrom(nodes, MatchPath(useEscapedPathForRouting, matchers[g].req),
               matchers[g].req.method, matchers[g].m,
               3 * Cardinality(DOMAIN nodes) + 1)

NoRevisit(g) ==
    matchers[g].pc = "running"
    => LET v == VisitsAhead(g)
       IN \A i, j \in 1..Len(v) : v[i] = v[j] => i = j

\* C26: Match terminates on every tree Add and Remove build: a matcher that
\* has entered the loop returns, and the loop never takes the same
\* (node, alternative kind) pair twice.
C26_MatchTerminates ==
    /\ [](\A g \in Goroutines : NoRevisit(g))
    /\ (matchers[1].pc = "running") ~> (matchers[1].pc = "returned")

\* a Match has returned without a route from a tree of four nodes or more in
\* which a Param node has children: it has been down and has backtracked
C26_Witness ==
    /\ matchers[1].pc = "returned"
    /\ matchers[1].out.result.type # RouteMatchFound
    /\ Cardinality(DOMAIN nodes) >= 4
    /\ Len(routes) >= 2
    /\ \E n \in DOMAIN nodes : nodes[n].kind = paramKind /\ ~nodes[n].isLeaf

-----------------------------------------------------------------------------
(* C27 *)

\* the node n and all that hangs below it
RECURSIVE Below(_, _)
Below(ns, n) ==
    {n} \cup UNION {Below(ns, k) : k \in KidsOf(ns, n)}

\* the routes whose handler the split has handed to the inheriting child
Inherited ==
    {req \in RegisteredRequests :
        \E k \in Below(nodes, last.n) :
           /\ req.method \in DOMAIN nodes[k].methods
           /\ nodes[k].originalPath = req.path}

\* C27: between the reset of the split node and the attachment of the child
\* that inherits from it, the split node holds the common prefix and nothing
\* else, no node holds the inheriting child, and the tree resolves none of the
\* registered routes that the child has inherited.
C27_SplitResetsBeforeItAttaches ==
    (last.op = "Adding" /\ last.pc = "attach")
    => /\ KidsOf(nodes, last.cur) = {}
       /\ nodes[last.cur].methods = NewRouteMethods
       /\ ~nodes[last.cur].isHandler
       /\ nodes[last.cur].prefix = Take(last.search, last.lcpLen)
       /\ \A k \in DOMAIN nodes : last.n \notin KidsOf(nodes, k)
       /\ Inherited # {}
       /\ \A req \in Inherited : Outcome(nodes, req)[1].type # RouteMatchFound

\* a Match has returned NotFound or MethodNotAllowed for a route that was
\* registered when it was called and is registered now that the Add has
\* finished its work
C27_Witness ==
    /\ last.op = "Add" /\ ~last.err
    /\ matchers[1].pc = "returned"
    /\ matchers[1].out.result.type \in {RouteMatchNotFound, RouteMatchMethodNotAllowed}
    /\ <<matchers[1].req.method, matchers[1].req.path>>
          # <<last.routable.method, last.routable.path>>
    /\ matchers[1].req \in RegisteredRequests
    /\ Outcome(nodes, matchers[1].req)[1].type = RouteMatchFound

====
